---------------------------- MODULE Spec2Model ----------------------------
(***************************************************************************)
(* E-Netra: the change observer (content-detection.js), the summarization  *)
(* engine's priority score (ai-summarization.js), the preference filter    *)
(* (priority-filtering.js) and the alert dispatcher with the pipeline      *)
(* handler (alert-system.js), as state machines.                           *)
(*                                                                         *)
(* Each component has its own specification over the shared variables:     *)
(*   SpecObserver / FairSpecObserver  ContentDetectionModule               *)
(*   SpecListeners                    the observer and throwing listeners  *)
(*   SpecAnalyze                      _analyzeChangeGroup on one group     *)
(*   SpecAlert                        AlertSystemModule queue              *)
(*   FairSpecAlert                    SpecAlert, every render completes    *)
(*   SpecAlertMethod                  the alert method of an alert         *)
(*   SpecAudio                        the audio channel of the alert system *)
(*   SpecCleanup                      the alert dispatcher with cleanup()   *)
(*   SpecStartup                      initializeExtension                   *)
(*   SpecHandler                      the pipeline handler and its awaits   *)
(*   SpecPriority                     AISummarizationModule priority       *)
(*   SpecLearningFrame                recordInteraction, learning on or off *)
(*   SpecSummarize                    AISummarizationModule.summarizeChanges *)
(*   SpecBatch                        summarizeChanges on batches          *)
(*   SpecPipeline                     filterChanges -> showAlert handler   *)
(*   SpecFilter                       PriorityFilteringModule interface    *)
(*   SpecClassify                     filterChanges on every kind of summary *)
(*   SpecLearning / SpecLearningPass  recordInteraction and the learning   *)
(***************************************************************************)
EXTENDS Integers, Sequences, FiniteSets, TLC

VARIABLES
    \* ---- ContentDetectionModule (content-detection.js)
    now,               \* Date.now(), in ms
    observer,          \* TRUE iff this.observer is a connected MutationObserver
    changeListeners,   \* this.changeListeners
    faultyListeners,   \* the listeners whose callback throws when it is called
    lastProcessedTime, \* this.lastProcessedTime
    pendingChanges,    \* this.pendingChanges
    isProcessing,      \* this.isProcessing of the detector
    flushTimers,       \* deadlines of the pending setTimeout(_processPendingChanges)
    handed,            \* number of mutation records handed to _handleMutations
    passes,            \* history: one entry per _processMutations call
    anGroup,           \* mutationGroup argument of _analyzeChangeGroup
    anCalled,          \* TRUE once _analyzeChangeGroup has returned
    anResult,          \* the change data object it returned, or NULL
    \* ---- AlertSystemModule (alert-system.js)
    queueAlerts,       \* this.options.queueAlerts
    alertQueue,        \* this.alertQueue
    alertIsProcessing, \* this.isProcessing of the alert system
    drainLoops,        \* number of _processAlertQueue activations not yet returned
    rendering,         \* alerts whose _showSingleAlert promise is pending
    shown,             \* number of showAlert calls so far (alerts are numbered 1..shown)
    started,           \* history: alerts in the order their rendering started
    finished,          \* history: alerts whose rendering completed
    evicted,           \* history: alerts dropped from the queue unrendered
    contentTypeAlertMethods, \* this.contentTypeAlertMethods
    defaultAlertMethod, \* this.options.defaultAlertMethod
    amAlert,           \* alertData argument of _showSingleAlert
    amCalled,          \* TRUE once _showSingleAlert has chosen the method
    amMethod,          \* the method _determineAlertMethod returned
    amChannels,        \* the channels _showSingleAlert then used
    amAudio,           \* what _playAudioAlert did in that call: "", "skipped" or "played"
    audioEnabled,      \* this.options.audioEnabled
    audioContext,      \* this.audioContext: "null", "running" or "closed"
    alertInitialized,  \* initialize() has been called
    audioFailed,       \* history: creating the audio context has failed
    \* ---- AISummarizationModule._determinePriority (ai-summarization.js)
    prChange,          \* changeData argument
    prSummary,         \* summary argument
    prCalled,          \* TRUE once _determinePriority has returned
    prResult,          \* the returned priority
    \* ---- AISummarizationModule.summarizeChanges (ai-summarization.js)
    localProcessingOnly, \* this.options.localProcessingOnly
    contextHistory,    \* this.contextHistory
    smChange,          \* changeData argument of summarizeChanges
    smResult,          \* the value the returned promise settled with, or NULL
    smIsArray,         \* Array.isArray(changeData) of that argument
    smGroups,          \* history: the summaries of the groups of a batch, in group order
    hInFlight,         \* handler invocations awaiting the simulated processing delay
    hNotified,         \* number of batches the observer has notified the handler of
    hAlerts,           \* history: the batches showAlert was called for, in call order
    initialization,    \* the storage callback of initializeExtension: "pending", "done"
                       \* or "aborted" (an exception left the callback)
    \* ---- PriorityFilteringModule and the pipeline handler
    userPreferences,   \* this.userPreferences
    interactionHistory, \* this.interactionHistory
    submitted,         \* history: summaries passed to filterChanges, with the outcome
    delivered,         \* history: summaries handed to alertSystem.showAlert
    lastFilter,        \* history: the latest filterChanges call since the preferences
                       \* or the interaction history last changed, or NULL
    prefUpdates,       \* number of updatePreferences calls so far
    lastLearning,      \* history: the latest recordInteraction call of the learning
    enableLearning     \* this.options.enableLearning
                       \* specifications (preferences before and after, history
                       \* after the push), or NULL

analyzeVars == <<anGroup, anCalled, anResult>>
detectorVars == <<now, observer, changeListeners, lastProcessedTime, pendingChanges,
                  isProcessing, flushTimers, handed, passes, analyzeVars, faultyListeners>>
audioVars == <<audioEnabled, audioContext, alertInitialized, audioFailed>>
methodVars == <<contentTypeAlertMethods, defaultAlertMethod, amAlert, amCalled, amMethod,
                amChannels, amAudio, audioVars>>
alertVars == <<queueAlerts, alertQueue, alertIsProcessing, drainLoops, rendering,
               shown, started, finished, evicted, methodVars>>
handlerVars == <<hInFlight, hNotified, hAlerts, initialization>>
summarizerVars == <<localProcessingOnly, contextHistory, smChange, smResult, smIsArray,
                    smGroups, handlerVars>>
priorityVars == <<prChange, prSummary, prCalled, prResult, summarizerVars>>
filterVars == <<userPreferences, interactionHistory, submitted, delivered,
                lastFilter, prefUpdates, lastLearning, enableLearning>>
vars == <<detectorVars, alertVars, priorityVars, filterVars>>

\* JavaScript null / undefined
NULL == [null |-> TRUE]

\* ------------------------------------------------------------------------
\* Generic helpers
\* ------------------------------------------------------------------------
Range(s) == {s[i] : i \in 1..Len(s)}

RECURSIVE SumSeq(_)
SumSeq(s) == IF s = <<>> THEN 0 ELSE Head(s) + SumSeq(Tail(s))

Max(a, b) == IF a >= b THEN a ELSE b
Min(a, b) == IF a <= b THEN a ELSE b

\* ========================================================================
\* ContentDetectionModule
\* ========================================================================

\* options.throttleTime: a configurable option (default 100 ms); the model
\* instantiates it with a small window so that every alignment of bursts,
\* flush deadline and window edge is enumerated.
throttleTime == 3
\* options.minTextLength
minTextLength == 5
\* Date.now() never exceeds MaxTime in the model.
MaxTime == 9
\* Total number of mutation records delivered by the MutationObserver.
MaxRecords == 3
\* Longest burst (one MutationObserver callback).
MaxBurst == 2
\* Number of listeners registered through onSignificantChange.
MaxListeners == 1

ignoredTags == {"SCRIPT", "STYLE", "NOSCRIPT", "META", "LINK"}
ignoredClasses == {"hidden", "visually-hidden", "sr-only"}

\* The DOM nodes mutation records refer to.  tagName = "" stands for a node
\* without tagName (a Text node); textLen is the length of the trimmed textContent.
ElemP == [node |-> "p", tagName |-> "P", classList |-> {}, display |-> "",
          textLen |-> 30, role |-> "", ariaLive |-> FALSE]
ElemButton == [node |-> "button", tagName |-> "BUTTON", classList |-> {}, display |-> "",
               textLen |-> 2, role |-> "", ariaLive |-> FALSE]
ElemScript == [node |-> "script", tagName |-> "SCRIPT", classList |-> {}, display |-> "",
               textLen |-> 40, role |-> "", ariaLive |-> FALSE]

\* MutationRecord shapes the bursts are built from.  addedNodes/removedNodes
\* hold the textContent length of each node; oldValueLen is the length of
\* oldValue and oldValueSame tells whether oldValue equals the target's
\* present textContent (characterData records).
MutationRecord(type, target, addedNodes, removedNodes, attributeName) ==
    [type |-> type, target |-> target, addedNodes |-> addedNodes,
     removedNodes |-> removedNodes, attributeName |-> attributeName,
     oldValueLen |-> 0, oldValueSame |-> FALSE]
RecAddLong == MutationRecord("childList", ElemP, <<12>>, <<>>, "")
RecAddShort == MutationRecord("childList", ElemP, <<2>>, <<>>, "")
RecAria == MutationRecord("attributes", ElemButton, <<>>, <<>>, "aria-expanded")
RecScript == MutationRecord("childList", ElemScript, <<12>>, <<>>, "")
BurstShapes == {RecAddLong, RecAddShort, RecAria, RecScript}

Bursts == UNION {[1..n -> BurstShapes] : n \in 1..MaxBurst}

\* The records of a burst, numbered in delivery order after the `base` records
\* delivered before.
Numbered(burst, base) ==
    [i \in 1..Len(burst) |-> [id |-> base + i] @@ burst[i]]

\* ---- _groupRelatedMutations: a Map keyed by mutation.target, in insertion order
RECURSIVE TargetsInOrder(_)
TargetsInOrder(mutations) ==
    IF mutations = <<>> THEN <<>>
    ELSE LET before == TargetsInOrder(SubSeq(mutations, 1, Len(mutations) - 1))
             key == mutations[Len(mutations)].target.node
         IN  IF key \in Range(before) THEN before ELSE Append(before, key)

\* Mutant: no grouping, every record is a group of its own
_groupEachMutation(mutations) ==
    [i \in 1..Len(mutations) |-> <<mutations[i]>>]

_groupRelatedMutations(mutations) ==
    LET keys == TargetsInOrder(mutations)
    IN  [i \in 1..Len(keys) |->
            SelectSeq(mutations, LAMBDA m : m.target.node = keys[i])]

\* ---- _shouldIgnoreElement
_shouldIgnoreElement(element) ==
    \/ element.tagName = ""
    \/ element.tagName \in ignoredTags
    \/ element.classList \cap ignoredClasses # {}
    \/ element.display = "none"

\* ---- _categorizeChangeType
\* Mutant: added nodes decide before removed nodes are looked at
_categorizeChangeTypeAdditionFirst(mutationGroup) ==
    LET some(P(_)) == \E i \in 1..Len(mutationGroup) : P(mutationGroup[i])
    IN  IF some(LAMBDA m : m.type = "childList" /\ Len(m.addedNodes) > 0) THEN "addition"
        ELSE IF some(LAMBDA m : m.type = "childList" /\ Len(m.removedNodes) > 0) THEN "removal"
        ELSE IF some(LAMBDA m : m.type = "attributes") THEN "attribute"
        ELSE IF some(LAMBDA m : m.type = "characterData") THEN "text"
        ELSE "unknown"

_categorizeChangeType(mutationGroup) ==
    LET some(P(_)) == \E i \in 1..Len(mutationGroup) : P(mutationGroup[i])
        hasAdditions == some(LAMBDA m : m.type = "childList" /\ Len(m.addedNodes) > 0)
        hasRemovals == some(LAMBDA m : m.type = "childList" /\ Len(m.removedNodes) > 0)
        hasAttributeChanges == some(LAMBDA m : m.type = "attributes")
        hasTextChanges == some(LAMBDA m : m.type = "characterData")
    IN  IF hasAdditions /\ ~hasRemovals THEN "addition"
        ELSE IF hasRemovals /\ ~hasAdditions THEN "removal"
        ELSE IF hasAdditions /\ hasRemovals THEN "replacement"
        ELSE IF hasAttributeChanges THEN "attribute"
        ELSE IF hasTextChanges THEN "text"
        ELSE "unknown"

\* ---- _extractContentFromChange, on lengths.
\* Length of the nodes' textContent joined as `text + ' '` each (empty
\* textContent is skipped).
RECURSIVE JoinedLen(_)
JoinedLen(nodes) ==
    IF nodes = <<>> THEN 0
    ELSE (IF Head(nodes) > 0 THEN Head(nodes) + 1 ELSE 0) + JoinedLen(Tail(nodes))

\* Length after trim() of a text that is empty or ends in one space.
TrimmedLen(n) == IF n > 0 THEN n - 1 ELSE 0

AttrNameLen(name) ==
    CASE name = "aria-expanded" -> 13
      [] name = "aria-hidden" -> 11
      [] name = "role" -> 4
      [] name = "class" -> 5
      [] OTHER -> 0

StartsWithAria(name) == name \in {"aria-expanded", "aria-hidden"}

\* `${attrName} changed from "${oldValue}" to "${newValue}"`, values of 4 characters
AttrTextLen(name) == AttrNameLen(name) + 22 + 8

\* The last record of the group satisfying P, or 0.
LastIndex(mutationGroup, P(_)) ==
    LET hits == {i \in 1..Len(mutationGroup) : P(mutationGroup[i])}
    IN  IF hits = {} THEN 0 ELSE CHOOSE i \in hits : \A j \in hits : j <= i

\* content: textLen = content.text.length, newLen = content.new.length,
\* oldLen = content.old.length, aria = content.text.startsWith('aria-'),
\* oldEqNew = (content.old === content.new)
_extractContentFromChange(mutationGroup, changeType) ==
    LET childLists == SelectSeq(mutationGroup, LAMBDA m : m.type = "childList")
        addedLen == SumSeq([i \in 1..Len(childLists) |-> JoinedLen(childLists[i].addedNodes)])
        removedLen == SumSeq([i \in 1..Len(childLists) |-> JoinedLen(childLists[i].removedNodes)])
        target == mutationGroup[1].target
    IN  CASE changeType = "addition" ->
               [textLen |-> addedLen, newLen |-> TrimmedLen(addedLen), oldLen |-> 0,
                aria |-> FALSE, oldEqNew |-> addedLen = 0]
          [] changeType = "removal" ->
               \* newContent = '[Content removed]'
               [textLen |-> 0, newLen |-> 17, oldLen |-> 0, aria |-> FALSE,
                oldEqNew |-> FALSE]
          [] changeType = "replacement" ->
               [textLen |-> TrimmedLen(addedLen), newLen |-> TrimmedLen(addedLen),
                oldLen |-> TrimmedLen(removedLen), aria |-> FALSE,
                oldEqNew |-> addedLen = 0 /\ removedLen = 0]
          [] changeType = "text" ->
               LET k == LastIndex(mutationGroup, LAMBDA m : m.type = "characterData")
               IN  [textLen |-> target.textLen, newLen |-> target.textLen,
                    oldLen |-> mutationGroup[k].oldValueLen, aria |-> FALSE,
                    oldEqNew |-> mutationGroup[k].oldValueSame]
          [] changeType = "attribute" ->
               LET k == LastIndex(mutationGroup,
                            LAMBDA m : /\ m.type = "attributes"
                                       /\ \/ StartsWithAria(m.attributeName)
                                          \/ m.attributeName = "role")
               IN  IF k > 0
                   THEN [textLen |-> AttrTextLen(mutationGroup[k].attributeName),
                         newLen |-> 0, oldLen |-> 0,
                         aria |-> StartsWithAria(mutationGroup[k].attributeName),
                         oldEqNew |-> TRUE]
                   ELSE [textLen |-> target.textLen, newLen |-> 0, oldLen |-> 0,
                         aria |-> FALSE, oldEqNew |-> TRUE]
          [] OTHER ->
               [textLen |-> target.textLen, newLen |-> 0, oldLen |-> 0,
                aria |-> FALSE, oldEqNew |-> TRUE]

\* Mutant: only the length of content.new is tested
_isSignificantChangeNewOnly(content, changeType) ==
    IF content.newLen < minTextLength THEN FALSE
    ELSE IF changeType = "text" /\ content.oldEqNew THEN FALSE
    ELSE TRUE

\* Mutant: a text change is not compared with the old text
_isSignificantChangeIgnoringOld(content, changeType) ==
    IF changeType = "attribute" /\ content.aria THEN TRUE
    ELSE IF content.textLen < minTextLength /\ content.newLen < minTextLength THEN FALSE
    ELSE TRUE

\* ---- _isSignificantChange
_isSignificantChange(content, changeType) ==
    IF changeType = "attribute" /\ content.aria THEN TRUE
    ELSE IF content.textLen < minTextLength /\ content.newLen < minTextLength THEN FALSE
    ELSE IF changeType = "text" /\ content.oldEqNew THEN FALSE
    ELSE TRUE

\* ---- _analyzeChangeGroup: the change data object, or NULL
_analyzeChangeGroup(mutationGroup) ==
    IF mutationGroup = <<>> THEN NULL
    ELSE LET target == mutationGroup[1].target
             changeType == _categorizeChangeType(mutationGroup)
             content == _extractContentFromChange(mutationGroup, changeType)
         IN  IF _shouldIgnoreElement(target) THEN NULL
             ELSE IF ~_isSignificantChange(content, changeType) THEN NULL
             ELSE [type |-> changeType, content |-> content, element |-> target.node,
                   mutations |-> [i \in 1..Len(mutationGroup) |-> mutationGroup[i].id]]

\* Mutant: the callback is called outside a try block
RECURSIVE CallEachUncaught(_)
CallEachUncaught(listeners) ==
    IF listeners = <<>> THEN [invoked |-> <<>>, threw |-> FALSE]
    ELSE IF Head(listeners) \in faultyListeners
    THEN [invoked |-> <<Head(listeners)>>, threw |-> TRUE]
    ELSE LET rest == CallEachUncaught(Tail(listeners))
         IN  [invoked |-> <<Head(listeners)>> \o rest.invoked, threw |-> rest.threw]

_notifyChangeListenersUncaught(changes) == CallEachUncaught(changeListeners)

\* The for-of loop: listener(changes) in a try block whose catch logs the
\* error, so that a listener that throws ends like one that returns
RECURSIVE CallEach(_)
CallEach(listeners) ==
    IF listeners = <<>> THEN [invoked |-> <<>>, threw |-> FALSE]
    ELSE LET rest == CallEach(Tail(listeners))
         IN  [invoked |-> <<Head(listeners)>> \o rest.invoked, threw |-> rest.threw]

\* ---- _notifyChangeListeners: the listeners called, in call order, and
\* whether an exception left the function
_notifyChangeListeners(changes) == CallEach(changeListeners)

\* ---- _processMutations: the history entry of one processing pass.
\* events = the significant changes, listeners = the listeners registered,
\* notified = the listeners invoked, propagated = an exception left the pass.
_processMutations(mutations, via) ==
    LET groupedChanges == _groupRelatedMutations(mutations)
        analyzed == [i \in 1..Len(groupedChanges) |-> _analyzeChangeGroup(groupedChanges[i])]
        significantChanges == SelectSeq(analyzed, LAMBDA change : change # NULL)
    IN  [time |-> now, via |-> via, observing |-> observer,
         mutations |-> [i \in 1..Len(mutations) |-> mutations[i].id],
         targets |-> {mutations[i].target.node : i \in 1..Len(mutations)},
         events |-> significantChanges,
         listeners |-> changeListeners,
         notified |-> IF Len(significantChanges) > 0
                      THEN _notifyChangeListeners(significantChanges).invoked
                      ELSE <<>>,
         propagated |-> /\ Len(significantChanges) > 0
                        /\ _notifyChangeListeners(significantChanges).threw]

\* ---- _analyzeChangeGroup on one group of records of a target
\* Longest group, in records.
MaxGroup == 3

ElemSpan == [node |-> "span", tagName |-> "SPAN", classList |-> {}, display |-> "",
             textLen |-> 0, role |-> "", ariaLive |-> FALSE]
ElemHidden == [node |-> "div", tagName |-> "DIV", classList |-> {"hidden"}, display |-> "",
               textLen |-> 30, role |-> "", ariaLive |-> FALSE]

\* A characterData record; oldValue is the present text or a longer one
CharacterData(target, same) ==
    [MutationRecord("characterData", target, <<>>, <<>>, "") EXCEPT
        !.oldValueLen = IF same THEN target.textLen ELSE target.textLen + 1,
        !.oldValueSame = same]

\* The records a MutationObserver delivers for one target
RecordsOf(target) ==
    {MutationRecord("childList", target, <<12>>, <<>>, ""),
     MutationRecord("childList", target, <<2>>, <<>>, ""),
     MutationRecord("childList", target, <<0>>, <<>>, ""),
     MutationRecord("childList", target, <<>>, <<12>>, ""),
     MutationRecord("attributes", target, <<>>, <<>>, "aria-expanded"),
     MutationRecord("attributes", target, <<>>, <<>>, "role"),
     MutationRecord("attributes", target, <<>>, <<>>, "class"),
     CharacterData(target, TRUE),
     CharacterData(target, FALSE)}

\* The groups _groupRelatedMutations makes: records of one target
MutationGroups ==
    UNION {UNION {[1..n -> RecordsOf(target)] : n \in 1..MaxGroup} :
              target \in {ElemP, ElemButton, ElemSpan, ElemScript, ElemHidden}}

InitAnalyze ==
    /\ now = throttleTime
    /\ observer = FALSE
    /\ changeListeners = <<>>
    /\ faultyListeners = {}
    /\ lastProcessedTime = 0
    /\ pendingChanges = <<>>
    /\ isProcessing = FALSE
    /\ flushTimers = <<>>
    /\ handed = 0
    /\ passes = <<>>
    /\ anGroup \in {Numbered(group, 0) : group \in MutationGroups}
    /\ anCalled = FALSE
    /\ anResult = NULL

analyzeChangeGroupCall ==
    /\ ~anCalled
    /\ anCalled' = TRUE
    /\ anResult' = _analyzeChangeGroup(anGroup)
    /\ UNCHANGED <<now, observer, changeListeners, lastProcessedTime, pendingChanges,
                   isProcessing, flushTimers, handed, passes, anGroup, faultyListeners>>

\* ---- constructor
InitDetector ==
    /\ now = throttleTime     \* any clock value at least throttleTime past the epoch
    /\ observer = FALSE
    /\ changeListeners = <<>>
    /\ faultyListeners = {}
    /\ lastProcessedTime = 0
    /\ pendingChanges = <<>>
    /\ isProcessing = FALSE
    /\ flushTimers = <<>>
    /\ handed = 0
    /\ passes = <<>>
    /\ anGroup = <<>>
    /\ anCalled = FALSE
    /\ anResult = NULL

\* ---- startObserving(document.body); called while no observer is connected
startObserving ==
    /\ ~observer
    /\ observer' = TRUE
    /\ UNCHANGED <<now, changeListeners, lastProcessedTime, pendingChanges,
                   isProcessing, flushTimers, handed, passes, analyzeVars, faultyListeners>>

\* ---- stopObserving
stopObserving ==
    /\ observer
    /\ observer' = FALSE
    /\ UNCHANGED <<now, changeListeners, lastProcessedTime, pendingChanges,
                   isProcessing, flushTimers, handed, passes, analyzeVars, faultyListeners>>

\* ---- onSignificantChange(callback)
\* The callback is a function that throws when called, or one that returns;
\* at most `most` are registered
register(throws, most) ==
    /\ Len(changeListeners) < most
    /\ changeListeners' = Append(changeListeners, Len(changeListeners) + 1)
    /\ faultyListeners' = IF throws THEN faultyListeners \cup {Len(changeListeners) + 1}
                          ELSE faultyListeners
    /\ UNCHANGED <<now, observer, lastProcessedTime, pendingChanges,
                   isProcessing, flushTimers, handed, passes, analyzeVars>>

onSignificantChange == register(FALSE, MaxListeners)

\* Mutant: the buffered records are overwritten instead of concatenated
_handleMutationsOverwrite(burst) ==
    LET mutations == Numbered(burst, handed)
    IN  /\ observer
        /\ handed + Len(burst) <= MaxRecords
        /\ now + throttleTime <= MaxTime
        /\ handed' = handed + Len(burst)
        /\ IF now - lastProcessedTime < throttleTime
           THEN /\ pendingChanges' = mutations
                /\ IF ~isProcessing
                   THEN /\ flushTimers' = Append(flushTimers, now + throttleTime)
                        /\ isProcessing' = TRUE
                   ELSE UNCHANGED <<flushTimers, isProcessing>>
                /\ UNCHANGED <<lastProcessedTime, passes>>
           ELSE /\ lastProcessedTime' = now
                /\ passes' = Append(passes, _processMutations(mutations, "immediate"))
                /\ UNCHANGED <<pendingChanges, flushTimers, isProcessing>>
        /\ UNCHANGED <<now, observer, changeListeners, analyzeVars, faultyListeners>>

\* ---- _handleMutations(mutations): the MutationObserver callback
_handleMutations(burst) ==
    LET mutations == Numbered(burst, handed)
    IN  /\ observer
        /\ handed + Len(burst) <= MaxRecords
        /\ now + throttleTime <= MaxTime
        /\ handed' = handed + Len(burst)
        /\ IF now - lastProcessedTime < throttleTime
           THEN /\ pendingChanges' = pendingChanges \o mutations
                /\ IF ~isProcessing
                   THEN /\ flushTimers' = Append(flushTimers, now + throttleTime)
                        /\ isProcessing' = TRUE
                   ELSE UNCHANGED <<flushTimers, isProcessing>>
                /\ UNCHANGED <<lastProcessedTime, passes>>
           ELSE /\ lastProcessedTime' = now
                /\ passes' = Append(passes, _processMutations(mutations, "immediate"))
                /\ UNCHANGED <<pendingChanges, flushTimers, isProcessing>>
        /\ UNCHANGED <<now, observer, changeListeners, analyzeVars, faultyListeners>>

\* ---- _processPendingChanges: the setTimeout callback, once its delay has elapsed
_processPendingChanges ==
    /\ flushTimers # <<>>
    /\ now >= Head(flushTimers)
    /\ flushTimers' = Tail(flushTimers)
    /\ IF Len(pendingChanges) > 0
       THEN /\ passes' = Append(passes, _processMutations(pendingChanges, "flush"))
            /\ pendingChanges' = <<>>
       ELSE UNCHANGED <<passes, pendingChanges>>
    /\ isProcessing' = FALSE
    /\ UNCHANGED <<now, observer, changeListeners, lastProcessedTime, handed, analyzeVars, faultyListeners>>

\* ---- the clock advances by one millisecond
Tick ==
    /\ now < MaxTime
    /\ now' = now + 1
    /\ UNCHANGED <<observer, changeListeners, lastProcessedTime, pendingChanges,
                   isProcessing, flushTimers, handed, passes, analyzeVars, faultyListeners>>

\* ========================================================================
\* AlertSystemModule
\* ========================================================================

\* options.maxQueueSize
maxQueueSize == 10
\* Number of showAlert calls.
MaxAlerts == 12

\* ---- constructor: the alert methods of the content types and of the options
DefaultContentTypeAlertMethods ==
    [text |-> "screenreader",
     form |-> "screenreader",
     error |-> "combined",
     navigation |-> "screenreader",
     media |-> "screenreader",
     chat |-> "combined",
     advertisement |-> "visual"]

InitAlertMethods ==
    /\ contentTypeAlertMethods = DefaultContentTypeAlertMethods
    /\ defaultAlertMethod = "screenreader"
    /\ amAlert = [contentType |-> "", priority |-> 0]
    /\ amCalled = FALSE
    /\ amMethod = ""
    /\ amChannels = {}
    /\ amAudio = ""
    /\ audioEnabled = TRUE
    /\ audioContext = "null"
    /\ alertInitialized = FALSE
    /\ audioFailed = FALSE

\* ---- constructor; queueAlerts is an option of the constructor
InitAlert ==
    /\ queueAlerts \in BOOLEAN
    /\ alertQueue = <<>>
    /\ alertIsProcessing = FALSE
    /\ drainLoops = 0
    /\ rendering = {}
    /\ shown = 0
    /\ started = <<>>
    /\ finished = {}
    /\ evicted = {}
    /\ InitAlertMethods

\* Mutant: the loop takes the newest pending alert (pop instead of shift)
DrainIterationLifo(queue, inFlight, loops, processing) ==
    IF Len(queue) > 0
    THEN /\ alertQueue' = SubSeq(queue, 1, Len(queue) - 1)
         /\ rendering' = inFlight \cup {[alert |-> queue[Len(queue)], loop |-> TRUE]}
         /\ started' = Append(started, queue[Len(queue)])
         /\ drainLoops' = loops
         /\ alertIsProcessing' = processing
    ELSE /\ alertQueue' = queue
         /\ rendering' = inFlight
         /\ started' = started
         /\ drainLoops' = loops - 1
         /\ alertIsProcessing' = FALSE

\* Mutant: `if` instead of `while`: the loop returns after its first alert
DrainIterationOnce(queue, inFlight, loops, processing) ==
    IF Len(queue) > 0 /\ loops > drainLoops
    THEN /\ alertQueue' = Tail(queue)
         /\ rendering' = inFlight \cup {[alert |-> Head(queue), loop |-> TRUE]}
         /\ started' = Append(started, Head(queue))
         /\ drainLoops' = loops
         /\ alertIsProcessing' = processing
    ELSE /\ alertQueue' = queue
         /\ rendering' = inFlight
         /\ started' = started
         /\ drainLoops' = loops - 1
         /\ alertIsProcessing' = FALSE

\* ---- _processAlertQueue, from the `while` test to the next suspension at
\* `await this._showSingleAlert(alert)` or to the return.  queue and inFlight are
\* alertQueue and rendering as the loop finds them, loops counts the active
\* loops with this one, processing is isProcessing as the loop finds it.
DrainIteration(queue, inFlight, loops, processing) ==
    IF Len(queue) > 0
    THEN /\ alertQueue' = Tail(queue)
         /\ rendering' = inFlight \cup {[alert |-> Head(queue), loop |-> TRUE]}
         /\ started' = Append(started, Head(queue))
         /\ drainLoops' = loops
         /\ alertIsProcessing' = processing
    ELSE /\ alertQueue' = queue
         /\ rendering' = inFlight
         /\ started' = started
         /\ drainLoops' = loops - 1
         /\ alertIsProcessing' = FALSE

\* ---- _processAlertQueue(): sets isProcessing and runs to its first await
_processAlertQueue(queue) ==
    DrainIteration(queue, rendering, drainLoops + 1, TRUE)

\* Mutant: a drain loop is started by every call, isProcessing is not tested
showAlertAlwaysDrain ==
    LET alertData == shown + 1
        pushed == Append(alertQueue, alertData)
        overflow == Len(pushed) > maxQueueSize
        limited == IF overflow THEN Tail(pushed) ELSE pushed
    IN  /\ shown < MaxAlerts
        /\ shown' = alertData
        /\ evicted' = IF overflow THEN evicted \cup {Head(pushed)} ELSE evicted
        /\ _processAlertQueue(limited)
        /\ UNCHANGED <<queueAlerts, finished, methodVars>>

\* Mutant: on overflow the newly pushed alert is dropped (pop instead of shift)
showAlertDropNewest ==
    LET alertData == shown + 1
        pushed == Append(alertQueue, alertData)
        overflow == Len(pushed) > maxQueueSize
        limited == IF overflow THEN alertQueue ELSE pushed
    IN  /\ shown < MaxAlerts
        /\ shown' = alertData
        /\ evicted' = IF overflow THEN evicted \cup {alertData} ELSE evicted
        /\ IF ~alertIsProcessing
           THEN _processAlertQueue(limited)
           ELSE /\ alertQueue' = limited
                /\ UNCHANGED <<alertIsProcessing, drainLoops, rendering, started>>
        /\ UNCHANGED <<queueAlerts, finished, methodVars>>

\* ---- showAlert(alertData); the alert is numbered shown + 1
showAlert ==
    LET alertData == shown + 1
        pushed == Append(alertQueue, alertData)
        overflow == Len(pushed) > maxQueueSize
        limited == IF overflow THEN Tail(pushed) ELSE pushed
    IN  /\ shown < MaxAlerts
        /\ shown' = alertData
        /\ IF queueAlerts
           THEN /\ evicted' = IF overflow THEN evicted \cup {Head(pushed)} ELSE evicted
                /\ IF ~alertIsProcessing
                   THEN _processAlertQueue(limited)
                   ELSE /\ alertQueue' = limited
                        /\ UNCHANGED <<alertIsProcessing, drainLoops, rendering, started>>
           ELSE \* await this._showSingleAlert(alertData)
                /\ rendering' = rendering \cup {[alert |-> alertData, loop |-> FALSE]}
                /\ started' = Append(started, alertData)
                /\ UNCHANGED <<alertQueue, alertIsProcessing, drainLoops, evicted>>
        /\ UNCHANGED <<queueAlerts, finished, methodVars>>

\* ---- the promise of _showSingleAlert(r.alert) resolves; a drain loop that
\* awaited it goes on with its next iteration
renderComplete(r) ==
    /\ r \in rendering
    /\ finished' = finished \cup {r.alert}
    /\ IF r.loop
       THEN DrainIteration(alertQueue, rendering \ {r}, drainLoops, alertIsProcessing)
       ELSE /\ rendering' = rendering \ {r}
            /\ UNCHANGED <<alertQueue, alertIsProcessing, drainLoops, started>>
    /\ UNCHANGED <<queueAlerts, shown, evicted, methodVars>>

InFlight == {[alert |-> a, loop |-> l] : a \in 1..MaxAlerts, l \in BOOLEAN}

\* ---- cleanup(): the audio context is closed, the queue emptied and
\* isProcessing reset; a drain loop suspended at its await stays suspended
cleanup ==
    /\ audioContext' = IF audioContext = "running" THEN "closed" ELSE audioContext
    /\ alertQueue' = <<>>
    /\ alertIsProcessing' = FALSE
    /\ UNCHANGED <<queueAlerts, drainLoops, rendering, shown, started, finished, evicted,
                   contentTypeAlertMethods, defaultAlertMethod, amAlert, amCalled,
                   amMethod, amChannels, amAudio, audioEnabled, alertInitialized,
                   audioFailed>>

\* Mutant: only a priority above 8 is escalated
_determineAlertMethodAboveEight(alertData) ==
    LET contentType == IF alertData.contentType = "" THEN "text" ELSE alertData.contentType
        methodForType == IF contentType \in DOMAIN contentTypeAlertMethods
                         THEN contentTypeAlertMethods[contentType]
                         ELSE defaultAlertMethod
    IN  IF alertData.priority > 8 THEN "combined" ELSE methodForType

\* ---- _determineAlertMethod; an alertData without contentType has "" and
\* one without priority has 0, which like undefined is not >= 8
_determineAlertMethod(alertData) ==
    LET contentType == IF alertData.contentType = "" THEN "text" ELSE alertData.contentType
        methodForType == IF contentType \in DOMAIN contentTypeAlertMethods
                         THEN contentTypeAlertMethods[contentType]
                         ELSE defaultAlertMethod
    IN  IF alertData.priority >= 8 THEN "combined" ELSE methodForType

\* ---- _showSingleAlert: the channels of the switch on the alert method
ChannelsOf(alertMethod) ==
    CASE alertMethod = "screenreader" -> {"screenreader"}
      [] alertMethod = "visual" -> {"visual"}
      [] alertMethod = "audio" -> {"audio"}
      [] alertMethod = "combined" -> {"screenreader", "visual", "audio"}
      [] OTHER -> {"screenreader"}

AlertMethods == {"screenreader", "audio", "visual", "combined"}

\* alertData: the content types of the filter, none, and one without a
\* configured method; priorities on both sides of 8 and none
AlertData ==
    [contentType : {"text", "form", "error", "navigation", "media", "chat", "advertisement",
                    "", "video"},
     priority : {0, 5, 7, 8, 10}]

\* preferences of updatePreferences: a default method, or the method of a
\* content type
AlertPreferences ==
    {[defaultAlertMethod |-> method] : method \in AlertMethods}
        \cup {[contentTypeAlertMethods |-> (contentType :> method)] :
                 contentType \in {"text", "advertisement"}, method \in {"audio", "combined"}}

\* preferences of updatePreferences that set audioEnabled
AudioPreferences == {[audioEnabled |-> enabled] : enabled \in BOOLEAN}

\* Mutant: the new setting is compared with the one before the call
AudioSettingChangedFromBefore(preferences, merged, before) ==
    /\ "audioEnabled" \in DOMAIN preferences
    /\ preferences.audioEnabled # before

\* preferences.audioEnabled !== undefined &&
\* preferences.audioEnabled !== this.options.audioEnabled, evaluated after
\* this.options has been assigned the merge of the options and the preferences
AudioSettingChanged(preferences, merged, before) ==
    /\ "audioEnabled" \in DOMAIN preferences
    /\ preferences.audioEnabled # merged

\* ---- _initializeAudio: `created` is whether the AudioContext constructor
\* returned; when it throws, the catch sets options.audioEnabled to false
_initializeAudio(enabled, created) ==
    IF created
    THEN /\ audioContext' = "running"
         /\ audioEnabled' = enabled
         /\ UNCHANGED audioFailed
    ELSE /\ audioEnabled' = FALSE
         /\ audioFailed' = TRUE
         /\ UNCHANGED audioContext

\* ---- initialize()
initialize(created) ==
    /\ ~alertInitialized
    /\ alertInitialized' = TRUE
    /\ IF audioEnabled THEN _initializeAudio(audioEnabled, created)
       ELSE UNCHANGED <<audioEnabled, audioContext, audioFailed>>
    /\ UNCHANGED <<queueAlerts, alertQueue, alertIsProcessing, drainLoops, rendering,
                   shown, started, finished, evicted, contentTypeAlertMethods,
                   defaultAlertMethod, amAlert, amCalled, amMethod, amChannels, amAudio>>

\* ---- updatePreferences(preferences) of the alert system
updateAlertPreferences(preferences) ==
    LET merged == IF "audioEnabled" \in DOMAIN preferences THEN preferences.audioEnabled
                  ELSE audioEnabled
    IN  /\ defaultAlertMethod' = IF "defaultAlertMethod" \in DOMAIN preferences
                                 THEN preferences.defaultAlertMethod ELSE defaultAlertMethod
        /\ contentTypeAlertMethods' =
              IF "contentTypeAlertMethods" \in DOMAIN preferences
              THEN preferences.contentTypeAlertMethods @@ contentTypeAlertMethods
              ELSE contentTypeAlertMethods
        /\ IF AudioSettingChanged(preferences, merged, audioEnabled)
           THEN IF preferences.audioEnabled
                THEN \E created \in BOOLEAN : _initializeAudio(merged, created)
                ELSE /\ audioContext' = "null"
                     /\ audioEnabled' = merged
                     /\ UNCHANGED audioFailed
           ELSE /\ audioEnabled' = merged
                /\ UNCHANGED <<audioContext, audioFailed>>
        /\ amCalled' = FALSE
        /\ amMethod' = ""
        /\ amChannels' = {}
        /\ amAudio' = ""
        /\ UNCHANGED <<queueAlerts, alertQueue, alertIsProcessing, drainLoops, rendering,
                       shown, started, finished, evicted, amAlert, alertInitialized>>

\* ---- _playAudioAlert: the resolved promise when audio is off or there is
\* no audio context, the tone pattern otherwise
_playAudioAlert(alertData) ==
    IF ~audioEnabled \/ audioContext = "null" THEN "skipped" ELSE "played"

_showSingleAlert(alertData) ==
    /\ ~amCalled
    /\ amAlert' = alertData
    /\ amCalled' = TRUE
    /\ amMethod' = _determineAlertMethod(alertData)
    /\ amChannels' = ChannelsOf(_determineAlertMethod(alertData))
    /\ amAudio' = IF "audio" \in ChannelsOf(_determineAlertMethod(alertData))
                  THEN _playAudioAlert(alertData) ELSE ""
    /\ UNCHANGED <<queueAlerts, alertQueue, alertIsProcessing, drainLoops, rendering,
                   shown, started, finished, evicted, contentTypeAlertMethods,
                   defaultAlertMethod, audioVars>>

\* ========================================================================
\* Text: a JavaScript string is a TLA+ string; Len, \o, SubSeq, Head and Tail
\* apply to strings as they do to sequences
\* ========================================================================
\* String.prototype.toLowerCase on one character
LowerCase ==
    ("A" :> "a") @@ ("B" :> "b") @@ ("C" :> "c") @@ ("D" :> "d")
    @@ ("E" :> "e") @@ ("F" :> "f") @@ ("G" :> "g") @@ ("H" :> "h")
    @@ ("I" :> "i") @@ ("J" :> "j") @@ ("K" :> "k") @@ ("L" :> "l")
    @@ ("M" :> "m") @@ ("N" :> "n") @@ ("O" :> "o") @@ ("P" :> "p")
    @@ ("Q" :> "q") @@ ("R" :> "r") @@ ("S" :> "s") @@ ("T" :> "t")
    @@ ("U" :> "u") @@ ("V" :> "v") @@ ("W" :> "w") @@ ("X" :> "x")
    @@ ("Y" :> "y") @@ ("Z" :> "z")

LowerOf(c) == IF c \in DOMAIN LowerCase THEN LowerCase[c] ELSE c

RECURSIVE toLowerCase(_)
toLowerCase(text) ==
    IF Len(text) <= 1 THEN LowerOf(text)
    ELSE toLowerCase(SubSeq(text, 1, Len(text) \div 2))
            \o toLowerCase(SubSeq(text, Len(text) \div 2 + 1, Len(text)))

\* text.includes(needle)
includes(text, needle) ==
    \E i \in 0..(Len(text) - Len(needle)) : SubSeq(text, i + 1, i + Len(needle)) = needle

\* text.length
length(text) == Len(text)

\* text.startsWith(prefix)
startsWith(text, prefix) ==
    Len(prefix) <= Len(text) /\ SubSeq(text, 1, Len(prefix)) = prefix

\* text.substring(start, end), 0 <= start <= end
substring(text, start, end) ==
    IF start >= Len(text) THEN "" ELSE SubSeq(text, start + 1, Min(end, Len(text)))

\* text.trim(), the white space being spaces
RECURSIVE trimStart(_)
trimStart(text) ==
    IF text # "" /\ Head(text) = " " THEN trimStart(Tail(text)) ELSE text
RECURSIVE trimEnd(_)
trimEnd(text) ==
    IF text # "" /\ SubSeq(text, Len(text), Len(text)) = " "
    THEN trimEnd(SubSeq(text, 1, Len(text) - 1)) ELSE text
trim(text) == trimEnd(trimStart(text))

\* text.split(/\s+/): the pieces between runs of spaces
RECURSIVE split(_)
split(text) ==
    LET spaces == {i \in 1..Len(text) : SubSeq(text, i, i) = " "}
    IN  IF spaces = {} THEN <<text>>
        ELSE LET first == CHOOSE i \in spaces : \A j \in spaces : i <= j
                 last == CHOOSE k \in first..Len(text) :
                            /\ \A j \in first..k : j \in spaces
                            /\ (k + 1) \notin spaces
             IN  <<substring(text, 0, first - 1)>> \o split(substring(text, last, Len(text)))

\* ========================================================================
\* AISummarizationModule._determinePriority
\* ========================================================================
\* Longest summary text, in words.
MaxWords == 2

PriorityWords == {"error", "Error", "ERROR", "alert", "Alert", "warning", "WARNING", "saved"}
RECURSIVE JoinWords(_)
JoinWords(words) ==
    IF words = <<>> THEN ""
    ELSE IF Len(words) = 1 THEN words[1]
    ELSE words[1] \o " " \o JoinWords(Tail(words))
PrioritySummaries ==
    {JoinWords(words) : words \in UNION {[1..n -> PriorityWords] : n \in 0..MaxWords}}
ChangeTypes == {"addition", "removal", "replacement", "attribute", "text", "group", "unknown"}
PriorityContexts ==
    {NULL} \cup [isLiveRegion : BOOLEAN, isInteractive : BOOLEAN, isForm : BOOLEAN,
                 role : {"heading", "button", ""}]

\* The adjustments of _determinePriority before clamping (used by the
\* mutants below); testsForm tells whether the form adjustment tests context.isForm
AdjustedPriority(changeData, summary, testsForm) ==
    LET context == changeData.context
        p0 == 5
        p1 == IF context # NULL /\ context.isLiveRegion THEN p0 + 3 ELSE p0
        p2 == IF context # NULL /\ context.isInteractive THEN p1 + 1 ELSE p1
        p3 == IF /\ context # NULL
                 /\ (testsForm => context.isForm)
                 /\ (includes(summary, "error") \/ includes(summary, "Error"))
              THEN p2 + 3 ELSE p2
        p4 == IF context # NULL /\ context.role = "heading" THEN p3 + 2 ELSE p3
        p5 == IF \/ includes(summary, "error") \/ includes(summary, "Error")
                 \/ includes(summary, "alert") \/ includes(summary, "Alert")
                 \/ includes(summary, "warning") \/ includes(summary, "Warning")
              THEN p4 + 2 ELSE p4
    IN  CASE changeData.type = "addition" -> p5 + 1
          [] changeData.type = "removal" -> p5 - 1
          [] changeData.type = "group" -> p5 + 1
          [] OTHER -> p5

\* Mutant: the result is not clamped
_determinePriorityUnclamped(changeData, summary) ==
    AdjustedPriority(changeData, summary, TRUE)

\* Mutant: the form adjustment is applied without testing context.isForm
_determinePriorityAnyError(changeData, summary) ==
    Max(1, Min(10, AdjustedPriority(changeData, summary, FALSE)))

_determinePriority(changeData, summary) ==
    LET context == changeData.context
        p0 == 5
        p1 == IF context # NULL /\ context.isLiveRegion THEN p0 + 3 ELSE p0
        p2 == IF context # NULL /\ context.isInteractive THEN p1 + 1 ELSE p1
        p3 == IF /\ context # NULL
                 /\ context.isForm
                 /\ (includes(summary, "error") \/ includes(summary, "Error"))
              THEN p2 + 3 ELSE p2
        p4 == IF context # NULL /\ context.role = "heading" THEN p3 + 2 ELSE p3
        p5 == IF \/ includes(summary, "error") \/ includes(summary, "Error")
                 \/ includes(summary, "alert") \/ includes(summary, "Alert")
                 \/ includes(summary, "warning") \/ includes(summary, "Warning")
              THEN p4 + 2 ELSE p4
        p6 == CASE changeData.type = "addition" -> p5 + 1
                [] changeData.type = "removal" -> p5 - 1
                [] changeData.type = "group" -> p5 + 1
                [] OTHER -> p5
    IN  Max(1, Min(10, p6))

\* No batch has been handed to the pipeline handler
IdleHandler ==
    /\ hInFlight = <<>>
    /\ hNotified = 0
    /\ hAlerts = <<>>
    /\ initialization = "pending"

\* The summarizer as constructed with its default options, not yet called
IdleSummarizer ==
    /\ localProcessingOnly = FALSE
    /\ contextHistory = <<>>
    /\ smChange = NULL
    /\ smResult = NULL
    /\ smIsArray = FALSE
    /\ smGroups = <<>>
    /\ IdleHandler

InitPriority ==
    /\ prChange \in [type : ChangeTypes, context : PriorityContexts]
    /\ prSummary \in PrioritySummaries
    /\ prCalled = FALSE
    /\ prResult = 0
    /\ IdleSummarizer

determinePriorityCall ==
    /\ ~prCalled
    /\ prCalled' = TRUE
    /\ prResult' = _determinePriority(prChange, prSummary)
    /\ UNCHANGED <<prChange, prSummary, summarizerVars>>


\* ========================================================================
\* AISummarizationModule.summarizeChanges for a single change event
\* ========================================================================
\* options.maxSummaryLength, options.minContentLength, this.maxContextItems
maxSummaryLength == 150
minContentLength == 20
maxContextItems == 5
\* options.preserveContext
preserveContext == TRUE

\* ---- _extractRelevantText
_extractRelevantText(changeData) ==
    LET content == changeData.content
    IN  IF length(content.new) > 0 THEN content.new
        ELSE IF length(content.text) > 0 THEN content.text
        ELSE ""

\* roleMap[context.role] || context.role
RoleName(role) ==
    CASE role = "button" -> "Button"
      [] role = "link" -> "Link"
      [] role = "checkbox" -> "Checkbox"
      [] role = "radio" -> "Radio button"
      [] role = "textbox" -> "Text field"
      [] role = "combobox" -> "Dropdown"
      [] role = "heading" -> "Heading"
      [] OTHER -> role

\* The summary text _createDirectSummary builds when the overrides are applied
\* in the order given: the live region override before or after the form one
DirectSummaryText(changeData, text, liveRegionLast) ==
    LET context == changeData.context
        roleName == RoleName(context.role)
        described ==
            IF context.role # "" /\ context.isInteractive
            THEN CASE changeData.type = "addition" -> roleName \o " added: " \o text
                   [] changeData.type = "removal" -> roleName \o " removed"
                   [] changeData.type = "text" -> roleName \o " updated to: " \o text
                   [] changeData.type = "attribute" -> roleName \o " state changed: " \o text
                   [] OTHER -> roleName \o ": " \o text
            ELSE text
        live(before) == IF context.isLiveRegion THEN text ELSE before
        form(before) == IF context.isForm /\ context.label # ""
                        THEN "Form field \"" \o context.label \o "\" updated to: " \o text
                        ELSE before
    IN  IF context = NULL THEN text
        ELSE IF liveRegionLast THEN live(form(described))
        ELSE form(live(described))

\* Mutant: the form field template is applied after the live region override
_createDirectSummaryFormLast(changeData, text) ==
    LET summary == DirectSummaryText(changeData, text, FALSE)
    IN  [original |-> changeData,
         summary |-> summary,
         priority |-> _determinePriority(changeData, summary),
         isDirectSummary |-> TRUE]

\* ---- _createDirectSummary
_createDirectSummary(changeData, text) ==
    LET context == changeData.context
        roleName == RoleName(context.role)
        s0 == text
        s1 == IF context # NULL /\ context.role # "" /\ context.isInteractive
              THEN CASE changeData.type = "addition" -> roleName \o " added: " \o text
                     [] changeData.type = "removal" -> roleName \o " removed"
                     [] changeData.type = "text" -> roleName \o " updated to: " \o text
                     [] changeData.type = "attribute" -> roleName \o " state changed: " \o text
                     [] OTHER -> roleName \o ": " \o text
              ELSE s0
        s2 == IF context # NULL /\ context.isForm /\ context.label # ""
              THEN "Form field \"" \o context.label \o "\" updated to: " \o text
              ELSE s1
        summary == IF context # NULL /\ context.isLiveRegion THEN text ELSE s2
    IN  [original |-> changeData,
         summary |-> summary,
         priority |-> _determinePriority(changeData, summary),
         isDirectSummary |-> TRUE]

\* What a function of the try block gives: the string it returns, or the
\* exception it throws
Returns(value) == [threw |-> FALSE, value |-> value]
Throws == [threw |-> TRUE, value |-> ""]

\* ---- _generateLocalSummary; reading a property of an undefined context throws
_generateLocalSummary(changeData, text) ==
    LET context == changeData.context
    IN  IF length(text) > maxSummaryLength
        THEN Returns(substring(text, 0, maxSummaryLength - 3) \o "...")
        ELSE CASE changeData.type = "addition" ->
                    IF context = NULL THEN Throws
                    ELSE IF context.role = "heading" THEN Returns("New section: " \o text)
                    ELSE IF context.isInteractive
                    THEN Returns("New " \o (IF context.role # "" THEN context.role ELSE "element")
                                        \o " added: " \o text)
                    ELSE Returns("New content: " \o text)
               [] changeData.type = "removal" -> Returns("Content removed: " \o text)
               [] changeData.type = "text" ->
                    IF context = NULL THEN Throws
                    ELSE IF context.isForm THEN Returns("Form updated: " \o text)
                    ELSE IF context.isLiveRegion THEN Returns(text)
                    ELSE Returns("Updated: " \o text)
               [] changeData.type = "attribute" ->
                    IF startsWith(text, "aria-")
                    THEN Returns("Accessibility state changed: " \o text)
                    ELSE Returns("Element state changed: " \o text)
               [] changeData.type = "group" -> Returns("Multiple updates: " \o text)
               [] OTHER -> Returns(text)

\* ---- _buildSummarizationContext
_buildSummarizationContext(changeData) ==
    LET context == changeData.context
        has == context # NULL
    IN  [changeType |-> changeData.type,
         elementRole |-> IF has THEN context.role ELSE "",
         elementLabel |-> IF has THEN context.label ELSE "",
         isInteractive |-> has /\ context.isInteractive,
         isForm |-> has /\ context.isForm,
         isLiveRegion |-> has /\ context.isLiveRegion,
         previousContext |-> SubSeq(contextHistory, Max(1, Len(contextHistory) - 1),
                                    Len(contextHistory))]

\* ---- _simulateAISummarization, after the simulated processing delay
_simulateAISummarization(text0, context, changeData) ==
    LET text == IF length(text0) > maxSummaryLength * 2
                THEN substring(text0, 0, maxSummaryLength * 2) ELSE text0
        reportsError == includes(text, "error") \/ includes(text, "Error")
                            \/ includes(text, "failed")
        summary ==
            CASE changeData.type = "addition" ->
                    IF context.isLiveRegion THEN text
                    ELSE IF context.elementRole = "heading" THEN "New section: " \o text
                    ELSE IF context.isForm
                    THEN "New form field added: "
                            \o (IF context.elementLabel # "" THEN context.elementLabel ELSE text)
                    ELSE IF context.isInteractive
                    THEN "New " \o (IF context.elementRole # "" THEN context.elementRole
                                    ELSE "interactive element") \o " added: " \o text
                    ELSE IF reportsError THEN "Error message: " \o text
                    ELSE IF length(text) > 100
                    THEN "New content added: " \o substring(text, 0, 100) \o "..."
                    ELSE "New content: " \o text
              [] changeData.type = "removal" ->
                    IF context.isInteractive
                    THEN (IF context.elementRole # "" THEN context.elementRole ELSE "Element")
                            \o " removed"
                    ELSE "Content removed"
              [] changeData.type = "text" ->
                    IF context.isForm
                    THEN "Form field "
                            \o (IF context.elementLabel # ""
                                THEN "\"" \o context.elementLabel \o "\"" ELSE "")
                            \o " updated to: " \o text
                    ELSE IF context.isLiveRegion THEN text
                    ELSE IF reportsError THEN "Error message: " \o text
                    ELSE "Updated content: " \o text
              [] changeData.type = "attribute" ->
                    IF startsWith(text, "aria-") THEN "Accessibility state changed: " \o text
                    ELSE "Element state changed: " \o text
              [] changeData.type = "group" ->
                    "Multiple updates: " \o substring(text, 0, maxSummaryLength)
              [] OTHER -> text
    IN  IF length(summary) > maxSummaryLength
        THEN substring(summary, 0, maxSummaryLength - 3) \o "..."
        ELSE summary

\* ---- _generateSummary
_generateSummary(changeData, text) ==
    IF localProcessingOnly THEN _generateLocalSummary(changeData, text)
    ELSE Returns(_simulateAISummarization(text, _buildSummarizationContext(changeData),
                                          changeData))

\* ---- _updateContextHistory: the new contextHistory
PushContext(history, changeData, summary) ==
    LET pushed == Append(history,
                         [summary |-> summary,
                          changeType |-> changeData.type,
                          elementRole |-> IF changeData.context # NULL
                                          THEN changeData.context.role ELSE "",
                          elementLabel |-> IF changeData.context # NULL
                                           THEN changeData.context.label ELSE ""])
    IN  IF Len(pushed) > maxContextItems THEN Tail(pushed) ELSE pushed

_updateContextHistory(changeData, summary) ==
    PushContext(contextHistory, changeData, summary)

\* ---- _processSingleChange: the summary data returned and the new contextHistory
_processSingleChange(changeData) ==
    LET relevantText == _extractRelevantText(changeData)
        generated == _generateSummary(changeData, relevantText)
    IN  IF length(relevantText) < minContentLength
        THEN [result |-> _createDirectSummary(changeData, relevantText),
              history |-> contextHistory]
        ELSE IF generated.threw
        THEN [result |-> _createDirectSummary(changeData, relevantText),
              history |-> contextHistory]
        ELSE [result |-> [original |-> changeData,
                          summary |-> generated.value,
                          priority |-> _determinePriority(changeData, generated.value),
                          isDirectSummary |-> FALSE],
              history |-> IF preserveContext
                          THEN _updateContextHistory(changeData, generated.value)
                          ELSE contextHistory]

\* ---- change events handed to summarizeChanges
RECURSIVE Repeat(_, _)
Repeat(text, n) == IF n = 0 THEN "" ELSE text \o Repeat(text, n - 1)

\* Texts below minContentLength, between it and maxSummaryLength, a few
\* characters below maxSummaryLength, above it and above twice maxSummaryLength
EventTexts ==
    {"", "3 new messages", "Breaking News", "Error saving",
     "Breaking News from the capital", "Payment failed for your order",
     Repeat("lorem ipsum ", 12), Repeat("lorem ipsum ", 13), Repeat("lorem ipsum ", 26)}

\* content.text and content.new as the observer fills them: equal, new
\* empty, text with the trailing space of the joined nodes, and a removal
EventContents ==
    {[text |-> t, new |-> t] : t \in EventTexts}
        \cup {[text |-> t, new |-> ""] : t \in EventTexts}
        \cup {[text |-> t \o " ", new |-> t] : t \in EventTexts \ {""}}
        \cup {[text |-> "", new |-> "[Content removed]"]}

EventContexts ==
    {NULL} \cup [role : {"", "button", "heading"}, label : {"", "Submit"},
                 isForm : BOOLEAN, isInteractive : BOOLEAN, isLiveRegion : BOOLEAN]

ChangeEvents == [type : ChangeTypes, content : EventContents, context : EventContexts]

InitSummarizer ==
    /\ localProcessingOnly \in BOOLEAN
    /\ contextHistory = <<>>
    /\ smChange \in ChangeEvents
    /\ smResult = NULL
    /\ smIsArray = FALSE
    /\ smGroups = <<>>
    /\ IdleHandler

\* ---- _groupRelatedChanges: the groups, in the insertion order of the Map.
\* A change event is identified by its id, a DOM element by its number.
RECURSIVE ElementsInOrder(_)
ElementsInOrder(changes) ==
    IF changes = <<>> THEN <<>>
    ELSE LET rest == ElementsInOrder(SubSeq(changes, 1, Len(changes) - 1))
             target == changes[Len(changes)].element
         IN  IF target \in Range(rest) THEN rest ELSE Append(rest, target)

\* The first pass adds every change to assignedChanges, so the pass by parent
\* context skips them all and the last pass finds no change left
_groupRelatedChanges(changes) ==
    LET targets == ElementsInOrder(changes)
        targetGroups == [k \in 1..Len(targets) |->
                            SelectSeq(changes, LAMBDA change : change.element = targets[k])]
        assignedChanges == {changes[i].id : i \in 1..Len(changes)}
        remaining == SelectSeq(changes, LAMBDA change : change.id \notin assignedChanges)
    IN  targetGroups \o [i \in 1..Len(remaining) |-> <<remaining[i]>>]

\* ---- _summarizeChangeGroup
RECURSIVE CombinedText(_)
CombinedText(changeGroup) ==
    IF changeGroup = <<>> THEN ""
    ELSE LET text == _extractRelevantText(Head(changeGroup))
         IN  (IF text # "" THEN text \o " " ELSE "") \o CombinedText(Tail(changeGroup))

_summarizeChangeGroup(changeGroup) ==
    IF Len(changeGroup) = 1 THEN _processSingleChange(changeGroup[1]).result
    ELSE LET combinedText == trim(CombinedText(changeGroup))
             groupChangeData == [type |-> "group",
                                 content |-> [text |-> combinedText, new |-> combinedText],
                                 element |-> changeGroup[1].element,
                                 context |-> changeGroup[1].context,
                                 changes |-> changeGroup]
         IN  _processSingleChange(groupChangeData).result

\* ---- processedGroups.sort((a, b) => b.priority - a.priority), a stable sort
RECURSIVE InsertByPriority(_, _)
InsertByPriority(sorted, group) ==
    IF sorted = <<>> THEN <<group>>
    ELSE IF Head(sorted).priority >= group.priority
    THEN <<Head(sorted)>> \o InsertByPriority(Tail(sorted), group)
    ELSE <<group>> \o sorted

RECURSIVE SortByPriority(_)
SortByPriority(processedGroups) ==
    IF processedGroups = <<>> THEN <<>>
    ELSE InsertByPriority(SortByPriority(SubSeq(processedGroups, 1, Len(processedGroups) - 1)),
                          processedGroups[Len(processedGroups)])

\* array.join(separator) of strings
RECURSIVE join(_, _)
join(texts, separator) ==
    IF texts = <<>> THEN ""
    ELSE IF Len(texts) = 1 THEN texts[1]
    ELSE texts[1] \o separator \o join(Tail(texts), separator)

\* group.original.changes || [group.original]
OriginalChanges(group) ==
    IF "changes" \in DOMAIN group.original THEN group.original.changes
    ELSE <<group.original>>

\* processedGroups.flatMap(group => group.original.changes || [group.original])
RECURSIVE AllOriginalChanges(_)
AllOriginalChanges(groups) ==
    IF groups = <<>> THEN <<>>
    ELSE OriginalChanges(Head(groups)) \o AllOriginalChanges(Tail(groups))

\* A promise rejected with the TypeError of a property access on undefined
Rejected == [rejected |-> "TypeError"]

\* The summary text of mainResult after the other summaries are appended
CombinedSummary(sorted) ==
    LET otherChangesCount == Len(sorted) - 1
        others == SubSeq(sorted, 2, Min(3, Len(sorted)))
        otherChangesSummary == join([i \in 1..Len(others) |-> others[i].summary], ". ")
        additionalInfo == IF otherChangesCount > 2
                          THEN " Plus " \o ToString(otherChangesCount - 2) \o " more changes."
                          ELSE ""
    IN  IF Len(sorted) > 1
        THEN sorted[1].summary \o ". " \o otherChangesSummary \o additionalInfo
        ELSE sorted[1].summary

\* Mutant: the group summaries are taken in the order of the groups
_combineGroupResultsUnsorted(processedGroups) ==
    IF processedGroups = <<>> THEN Rejected
    ELSE [processedGroups[1] EXCEPT !.summary = CombinedSummary(processedGroups)]
            @@ [allChanges |-> AllOriginalChanges(processedGroups)]

\* Mutant: allChanges holds the event each group summary was made from
_combineGroupResultsGroupOriginals(processedGroups) ==
    LET sorted == SortByPriority(processedGroups)
    IN  IF sorted = <<>> THEN Rejected
        ELSE [sorted[1] EXCEPT !.summary = CombinedSummary(sorted)]
                @@ [allChanges |-> [i \in 1..Len(sorted) |-> sorted[i].original]]

\* ---- _combineGroupResults; with no group mainResult is undefined and the
\* assignment to mainResult.allChanges throws
_combineGroupResults(processedGroups) ==
    LET sorted == SortByPriority(processedGroups)
    IN  IF sorted = <<>> THEN Rejected
        ELSE [sorted[1] EXCEPT !.summary = CombinedSummary(sorted)]
                @@ [allChanges |-> AllOriginalChanges(sorted)]

\* ---- _processBatchChanges: the group summaries Promise.all resolves with
ProcessedGroups(changes) ==
    LET groupedChanges == _groupRelatedChanges(changes)
    IN  [k \in 1..Len(groupedChanges) |-> _summarizeChangeGroup(groupedChanges[k])]

_processBatchChanges(changes) == _combineGroupResults(ProcessedGroups(changes))

\* contextHistory after the groups of a batch: every group read
\* contextHistory before its first await, and the summaries are pushed in the
\* order of the groups
RECURSIVE BatchHistory(_, _)
BatchHistory(history, processedGroups) ==
    IF processedGroups = <<>> THEN history
    ELSE LET group == Head(processedGroups)
         IN  BatchHistory(IF preserveContext /\ ~group.isDirectSummary
                          THEN PushContext(history, group.original, group.summary)
                          ELSE history,
                          Tail(processedGroups))

\* ---- batches handed to summarizeChanges
\* Most events in a batch
MaxBatch == 4

PlainContext == [role |-> "", label |-> "", isForm |-> FALSE, isInteractive |-> FALSE,
                 isLiveRegion |-> FALSE]

\* Events of priorities 6, 10, 4, 5 or 7 and 6: short and long texts, a live
\* region, a removal, an event without context
BatchEventPool ==
    {[type |-> "addition", content |-> [text |-> "Saved", new |-> "Saved"],
      context |-> PlainContext],
     [type |-> "text", content |-> [text |-> "Error saving", new |-> "Error saving"],
      context |-> [PlainContext EXCEPT !.isLiveRegion = TRUE]],
     [type |-> "removal", content |-> [text |-> "", new |-> "[Content removed]"],
      context |-> PlainContext],
     [type |-> "text", content |-> [text |-> "Payment failed for your order",
                                    new |-> "Payment failed for your order"],
      context |-> NULL],
     [type |-> "addition", content |-> [text |-> Repeat("lorem ipsum ", 13),
                                        new |-> Repeat("lorem ipsum ", 13)],
      context |-> PlainContext]}

\* The targets of n events, numbered in the order of their first appearance
TargetsOf(n) ==
    {element \in [1..n -> 1..n] :
        \A i \in 1..n : \A k \in 1..(element[i] - 1) : \E j \in 1..(i - 1) : element[j] = k}

\* The batches of at most `most` events
Batches(most) ==
    UNION {LET targets == TargetsOf(n)
           IN  {[i \in 1..n |-> [id |-> i, element |-> element[i]] @@ events[i]] :
                    events \in [1..n -> BatchEventPool], element \in targets} :
           n \in 0..most}

InitSummarizerAny ==
    /\ smIsArray \in BOOLEAN
    /\ smChange \in IF smIsArray THEN Batches(MaxBatch)
                    ELSE {[id |-> 1, element |-> 1] @@ event : event \in BatchEventPool}
    /\ localProcessingOnly \in BOOLEAN
    /\ contextHistory = <<>>
    /\ smResult = NULL
    /\ smGroups = <<>>
    /\ IdleHandler

\* summarizeChanges(changeData), up to the settlement of the returned promise
summarizeChanges ==
    /\ smResult = NULL
    /\ IF smIsArray
       THEN LET processedGroups == ProcessedGroups(smChange)
            IN  /\ smResult' = _combineGroupResults(processedGroups)
                /\ smGroups' = processedGroups
                /\ contextHistory' = BatchHistory(contextHistory, processedGroups)
       ELSE /\ smResult' = _processSingleChange(smChange).result
            /\ contextHistory' = _processSingleChange(smChange).history
            /\ smGroups' = <<>>
    /\ UNCHANGED <<localProcessingOnly, smChange, smIsArray, handlerVars>>

\* ========================================================================
\* PriorityFilteringModule
\* ========================================================================
\* options.defaultPriorityThreshold
defaultPriorityThreshold == 5
\* this.maxHistoryItems
maxHistoryItems == 100
\* options.siteSpecificSettings
siteSpecificSettings == TRUE

ContentTypes == {"text", "form", "error", "navigation", "media", "chat", "advertisement"}

DefaultContentTypePreferences ==
    [text |-> [enabled |-> TRUE, minPriority |-> 5],
     form |-> [enabled |-> TRUE, minPriority |-> 6],
     error |-> [enabled |-> TRUE, minPriority |-> 3],
     navigation |-> [enabled |-> TRUE, minPriority |-> 7],
     media |-> [enabled |-> TRUE, minPriority |-> 8],
     chat |-> [enabled |-> TRUE, minPriority |-> 4],
     advertisement |-> [enabled |-> FALSE, minPriority |-> 10]]

\* sites maps a domain to its override, a record holding only the keys it sets
DefaultUserPreferences ==
    [global |-> [priorityThreshold |-> defaultPriorityThreshold,
                 contentTypePreferences |-> DefaultContentTypePreferences],
     sites |-> <<>>]

\* ---- _extractDomain: a URL is modelled by its hostname
_extractDomain(url) == url

\* Mutant: the site's contentTypePreferences replaces the global one
_getApplicablePreferencesShallow(siteUrl) ==
    IF siteUrl = "" \/ ~siteSpecificSettings THEN userPreferences.global
    ELSE IF _extractDomain(siteUrl) \in DOMAIN userPreferences.sites
    THEN userPreferences.sites[_extractDomain(siteUrl)] @@ userPreferences.global
    ELSE userPreferences.global

\* ---- _getApplicablePreferences
_getApplicablePreferences(siteUrl) ==
    IF siteUrl = "" \/ ~siteSpecificSettings THEN userPreferences.global
    ELSE LET domain == _extractDomain(siteUrl)
         IN  IF domain \in DOMAIN userPreferences.sites
             THEN LET site == userPreferences.sites[domain]
                      siteTypes == IF "contentTypePreferences" \in DOMAIN site
                                   THEN site.contentTypePreferences ELSE <<>>
                  IN  [contentTypePreferences |->
                          siteTypes @@ userPreferences.global.contentTypePreferences]
                      @@ site @@ userPreferences.global
             ELSE userPreferences.global

\* Mutant: the form test comes before the error keywords
_determineContentTypeFormFirst(change) ==
    LET summary == change.summary
        context == change.context
        section == toLowerCase(context.section)
        lower == toLowerCase(summary)
    IN  IF context.isForm THEN "form"
        ELSE IF \/ includes(lower, "error")
                \/ includes(lower, "warning")
                \/ includes(lower, "alert")
        THEN "error"
        ELSE IF context.role \in {"navigation", "link", "button"} THEN "navigation"
        ELSE IF context.role \in {"img", "video", "audio"} THEN "media"
        ELSE IF \/ includes(summary, "message")
                \/ includes(section, "chat")
                \/ includes(section, "message")
        THEN "chat"
        ELSE IF \/ includes(lower, "ad")
                \/ includes(lower, "sponsor")
                \/ includes(section, "ad")
                \/ includes(section, "sponsor")
        THEN "advertisement"
        ELSE "text"

\* ---- _determineContentType; change.context holds isForm, role and
\* parentContext.section (a text)
_determineContentType(change) ==
    LET summary == change.summary
        context == change.context
        section == toLowerCase(context.section)
        lower == toLowerCase(summary)
    IN  IF \/ includes(lower, "error")
           \/ includes(lower, "warning")
           \/ includes(lower, "alert")
        THEN "error"
        ELSE IF context.isForm THEN "form"
        ELSE IF context.role \in {"navigation", "link", "button"} THEN "navigation"
        ELSE IF context.role \in {"img", "video", "audio"} THEN "media"
        ELSE IF \/ includes(summary, "message")
                \/ includes(section, "chat")
                \/ includes(section, "message")
        THEN "chat"
        ELSE IF \/ includes(lower, "ad")
                \/ includes(lower, "sponsor")
                \/ includes(section, "ad")
                \/ includes(section, "sponsor")
        THEN "advertisement"
        ELSE "text"

\* ---- _calculateSimilarity, as the fraction <<numerator, denominator>>
_calculateSimilarity(str1, str2) ==
    LET s1 == toLowerCase(str1)
        s2 == toLowerCase(str2)
        words1 == split(s1)
        words2 == split(s2)
        matchCount == Cardinality({i \in 1..Len(words1) :
                          length(words1[i]) > 3 /\ words1[i] \in Range(words2)})
    IN  IF str1 = str2 THEN <<1, 1>>
        ELSE IF length(str1) = 0 \/ length(str2) = 0 THEN <<0, 1>>
        ELSE IF includes(s1, s2) \/ includes(s2, s1)
        THEN <<Min(length(s1), length(s2)), Max(length(s1), length(s2))>>
        ELSE <<matchCount, Max(Len(words1), Len(words2))>>

\* fraction > 0.8
Above08(fraction) == fraction[1] * 10 > 8 * fraction[2]

\* interactionHistory.slice(-n)
LastItems(history, n) == SubSeq(history, Max(1, Len(history) - n + 1), Len(history))

\* ---- _isDuplicate
_isDuplicate(change) ==
    IF change.summary = "" THEN FALSE
    ELSE LET recentItems == LastItems(interactionHistory, 5)
         IN  \E i \in 1..Len(recentItems) :
                \/ recentItems[i].summary = change.summary
                \/ Above08(_calculateSimilarity(recentItems[i].summary, change.summary))

\* ---- _shouldFilterByRules
_shouldFilterByRules(change, contentType, preferences) ==
    \/ /\ contentType # "error"
       /\ change.summary # ""
       /\ length(change.summary) < 3
    \/ _isDuplicate(change)

\* reading a property of undefined throws
TypeError == [throws |-> "TypeError"]

\* Mutant: a Summary of priority 10 is let through before the enabled test
_filterSingleChangeUrgentFirst(change, siteUrl) ==
    LET preferences == _getApplicablePreferences(siteUrl)
        contentType == _determineContentType(change)
        typePrefs == IF contentType \in DOMAIN preferences.contentTypePreferences
                     THEN preferences.contentTypePreferences[contentType]
                     ELSE IF "text" \in DOMAIN preferences.contentTypePreferences
                     THEN preferences.contentTypePreferences.text
                     ELSE NULL
        priority == IF change.priority = 0 THEN 5 ELSE change.priority
        threshold == Max(typePrefs.minPriority, preferences.priorityThreshold)
    IN  IF typePrefs = NULL THEN TypeError
        ELSE IF priority = 10 THEN change
        ELSE IF ~typePrefs.enabled THEN NULL
        ELSE IF priority < threshold THEN NULL
        ELSE IF _shouldFilterByRules(change, contentType, preferences) THEN NULL
        ELSE change

\* Mutant: the threshold is the smaller of the two
_filterSingleChangeMinThreshold(change, siteUrl) ==
    LET preferences == _getApplicablePreferences(siteUrl)
        contentType == _determineContentType(change)
        typePrefs == IF contentType \in DOMAIN preferences.contentTypePreferences
                     THEN preferences.contentTypePreferences[contentType]
                     ELSE IF "text" \in DOMAIN preferences.contentTypePreferences
                     THEN preferences.contentTypePreferences.text
                     ELSE NULL
        priority == IF change.priority = 0 THEN 5 ELSE change.priority
        threshold == Min(typePrefs.minPriority, preferences.priorityThreshold)
    IN  IF typePrefs = NULL THEN TypeError
        ELSE IF ~typePrefs.enabled THEN NULL
        ELSE IF priority < threshold THEN NULL
        ELSE IF _shouldFilterByRules(change, contentType, preferences) THEN NULL
        ELSE change

\* ---- _filterSingleChange: the change, or NULL; TypeError when neither the
\* content type nor text has an entry (typePrefs is undefined)
_filterSingleChange(change, siteUrl) ==
    LET preferences == _getApplicablePreferences(siteUrl)
        contentType == _determineContentType(change)
        typePrefs == IF contentType \in DOMAIN preferences.contentTypePreferences
                     THEN preferences.contentTypePreferences[contentType]
                     ELSE IF "text" \in DOMAIN preferences.contentTypePreferences
                     THEN preferences.contentTypePreferences.text
                     ELSE NULL
        priority == IF change.priority = 0 THEN 5 ELSE change.priority
        threshold == Max(typePrefs.minPriority, preferences.priorityThreshold)
    IN  IF typePrefs = NULL THEN TypeError
        ELSE IF ~typePrefs.enabled THEN NULL
        ELSE IF priority < threshold THEN NULL
        ELSE IF _shouldFilterByRules(change, contentType, preferences) THEN NULL
        ELSE change

\* ---- filterChanges, for a single change
filterChanges(changes, siteUrl) == _filterSingleChange(changes, siteUrl)

\* Mutant: the pass counts the whole history, not the 20 most recent entries
_updatePreferencesFromWholeHistory(history) ==
    IF Len(history) < 10 THEN userPreferences
    ELSE LET recentInteractions == history
             count(type, kind) == Cardinality({i \in 1..Len(recentInteractions) :
                                     /\ recentInteractions[i].contentType = type
                                     /\ recentInteractions[i].interaction = kind})
             total(type) == Cardinality({i \in 1..Len(recentInteractions) :
                                recentInteractions[i].contentType = type})
             types == userPreferences.global.contentTypePreferences
             raised(type) == IF count(type, "dismissed") * 10 > 7 * total(type)
                             THEN Min(10, types[type].minPriority + 1)
                             ELSE types[type].minPriority
             lowered(type) == IF count(type, "clicked") * 10 > 3 * total(type)
                              THEN Max(1, raised(type) - 1)
                              ELSE raised(type)
         IN  [userPreferences EXCEPT !.global.contentTypePreferences =
                 [type \in DOMAIN types |->
                     IF total(type) < 3 THEN types[type]
                     ELSE [types[type] EXCEPT !.minPriority = lowered(type)]]]

\* Mutant: the lowering applies from a clicked fraction above 0.1
_updatePreferencesLowerAboveTenth(history) ==
    IF Len(history) < 10 THEN userPreferences
    ELSE LET recentInteractions == LastItems(history, 20)
             count(type, kind) == Cardinality({i \in 1..Len(recentInteractions) :
                                     /\ recentInteractions[i].contentType = type
                                     /\ recentInteractions[i].interaction = kind})
             total(type) == Cardinality({i \in 1..Len(recentInteractions) :
                                recentInteractions[i].contentType = type})
             types == userPreferences.global.contentTypePreferences
             raised(type) == IF count(type, "dismissed") * 10 > 7 * total(type)
                             THEN Min(10, types[type].minPriority + 1)
                             ELSE types[type].minPriority
             lowered(type) == IF count(type, "clicked") * 10 > total(type)
                              THEN Max(1, raised(type) - 1)
                              ELSE raised(type)
         IN  [userPreferences EXCEPT !.global.contentTypePreferences =
                 [type \in DOMAIN types |->
                     IF total(type) < 3 THEN types[type]
                     ELSE [types[type] EXCEPT !.minPriority = lowered(type)]]]

\* ---- _updatePreferencesFromInteractions: the new userPreferences
_updatePreferencesFromInteractions(history) ==
    IF Len(history) < 10 THEN userPreferences
    ELSE LET recentInteractions == LastItems(history, 20)
             count(type, kind) == Cardinality({i \in 1..Len(recentInteractions) :
                                     /\ recentInteractions[i].contentType = type
                                     /\ recentInteractions[i].interaction = kind})
             total(type) == Cardinality({i \in 1..Len(recentInteractions) :
                                recentInteractions[i].contentType = type})
             types == userPreferences.global.contentTypePreferences
             raised(type) == IF count(type, "dismissed") * 10 > 7 * total(type)
                             THEN Min(10, types[type].minPriority + 1)
                             ELSE types[type].minPriority
             lowered(type) == IF count(type, "clicked") * 10 > 3 * total(type)
                              THEN Max(1, raised(type) - 1)
                              ELSE raised(type)
         IN  [userPreferences EXCEPT !.global.contentTypePreferences =
                 [type \in DOMAIN types |->
                     IF total(type) < 3 THEN types[type]
                     ELSE [types[type] EXCEPT !.minPriority = lowered(type)]]]

Interactions == {"viewed", "dismissed", "clicked"}

\* Mutant: options.enableLearning is not tested
recordInteractionAlways(change, interaction) ==
    LET pushed == Append(interactionHistory,
                      [summary |-> change.summary,
                       contentType |-> _determineContentType(change),
                       priority |-> change.priority,
                       interaction |-> interaction])
        limited == IF Len(pushed) > maxHistoryItems THEN Tail(pushed) ELSE pushed
    IN  /\ interactionHistory' = limited
        /\ userPreferences' = _updatePreferencesFromInteractions(limited)

\* ---- recordInteraction(change, interaction)
recordInteraction(change, interaction) ==
    IF ~enableLearning
    THEN UNCHANGED <<userPreferences, interactionHistory>>
    ELSE LET pushed == Append(interactionHistory,
                           [summary |-> change.summary,
                            contentType |-> _determineContentType(change),
                            priority |-> change.priority,
                            interaction |-> interaction])
             limited == IF Len(pushed) > maxHistoryItems THEN Tail(pushed) ELSE pushed
         IN  /\ interactionHistory' = limited
             /\ userPreferences' = _updatePreferencesFromInteractions(limited)

\* ---- updatePreferences(newPreferences, siteUrl): the new userPreferences.
\* The spread of newPreferences has already replaced contentTypePreferences
\* when the "properly merged" assignment reads it back, so the merge is of
\* newPreferences.contentTypePreferences with itself.
updatePreferences(newPreferences, siteUrl) ==
    IF siteUrl = ""
    THEN LET spread == newPreferences @@ userPreferences.global
             merged == IF "contentTypePreferences" \in DOMAIN newPreferences
                       THEN [spread EXCEPT !.contentTypePreferences =
                                newPreferences.contentTypePreferences
                                    @@ spread.contentTypePreferences]
                       ELSE spread
         IN  [userPreferences EXCEPT !.global = merged]
    ELSE LET domain == _extractDomain(siteUrl)
             existing == IF domain \in DOMAIN userPreferences.sites
                         THEN userPreferences.sites[domain]
                         ELSE [contentTypePreferences |-> <<>>]
             spread == newPreferences @@ existing
             merged == IF "contentTypePreferences" \in DOMAIN newPreferences
                       THEN [spread EXCEPT !.contentTypePreferences =
                                newPreferences.contentTypePreferences
                                    @@ spread.contentTypePreferences]
                       ELSE spread
         IN  [userPreferences EXCEPT !.sites = (domain :> merged) @@ userPreferences.sites]

\* ---- constructor
InitFilter ==
    /\ userPreferences = DefaultUserPreferences
    /\ interactionHistory = <<>>
    /\ submitted = <<>>
    /\ delivered = <<>>
    /\ lastFilter = NULL
    /\ prefUpdates = 0
    /\ lastLearning = NULL
    /\ enableLearning = TRUE

\* ========================================================================
\* The pipeline handler registered by initializeExtension, from the point
\* where summarizeChanges has resolved: filterChanges, then showAlert
\* ========================================================================
\* Number of summaries passed through the handler.
MaxSubmissions == 2
\* Number of recordInteraction calls.
MaxInteractions == 1

\* window.location.href
href == "example.com"

SummaryContext(isForm, role, section) ==
    [isForm |-> isForm, role |-> role, section |-> section]

SummaryPool ==
    {[summary |-> "Form error", priority |-> 8,
      context |-> SummaryContext(TRUE, "textbox", "")],
     [summary |-> "saved", priority |-> 5,
      context |-> SummaryContext(FALSE, "", "")],
     [summary |-> "New message", priority |-> 6,
      context |-> SummaryContext(FALSE, "", "Chat")],
     [summary |-> "New content loaded", priority |-> 9,
      context |-> SummaryContext(FALSE, "", "")],
     [summary |-> "ok", priority |-> 6,
      context |-> SummaryContext(FALSE, "", "")]}

pipelineHandler(summarizedChanges) ==
    LET filteredChanges == filterChanges(summarizedChanges, href)
    IN  /\ Len(submitted) < MaxSubmissions
        /\ submitted' = Append(submitted, [summary |-> summarizedChanges.summary,
                                           accepted |-> filteredChanges \notin {NULL, TypeError}])
        /\ IF filteredChanges \notin {NULL, TypeError}
           THEN /\ delivered' = Append(delivered,
                                   [summary |-> filteredChanges.summary,
                                    priority |-> filteredChanges.priority,
                                    contentType |-> _determineContentType(filteredChanges),
                                    alert |-> shown + 1])
                /\ showAlert
           ELSE UNCHANGED <<delivered, alertVars>>
        /\ UNCHANGED <<userPreferences, interactionHistory, lastFilter, prefUpdates,
                       lastLearning, enableLearning>>

\* ---- the handler as the observer calls it: async (changes) => { ... }
\* The delay of _simulateAISummarization (50 ms), in clock ticks, on the scale
\* of throttleTime.
simulatedDelay == 2
\* Number of batches the handler is notified of.
MaxBatches == 2

\* change.original?.context || change.context || {} as _determineContentType
\* reads it: isForm, role and parentContext.section
FilterView(summarizedChanges) ==
    LET context == summarizedChanges.original.context
    IN  [summary |-> summarizedChanges.summary,
         priority |-> summarizedChanges.priority,
         context |-> IF context = NULL THEN SummaryContext(FALSE, "", "")
                     ELSE SummaryContext(context.isForm, context.role,
                                         IF "section" \in DOMAIN context
                                         THEN context.section ELSE "")]

\* The text _processSingleChange sees for a group of a batch
GroupText(changeGroup) ==
    IF Len(changeGroup) = 1 THEN _extractRelevantText(changeGroup[1])
    ELSE trim(CombinedText(changeGroup))

\* summarizeChanges(changes) awaits the timer of _simulateAISummarization for
\* some group; otherwise its promise settles without waiting for a task
AwaitsDelay(changes) ==
    LET groupedChanges == _groupRelatedChanges(changes)
    IN  /\ ~localProcessingOnly
        /\ \E k \in 1..Len(groupedChanges) :
              length(GroupText(groupedChanges[k])) >= minContentLength

\* The handler from the settlement of summarizeChanges on: the catch when it
\* rejected, filterChanges and showAlert otherwise
handlerContinue(batch, summarizedChanges) ==
    IF summarizedChanges = Rejected
    THEN UNCHANGED <<filterVars, alertVars, hAlerts>>
    ELSE /\ pipelineHandler(FilterView(summarizedChanges))
         /\ hAlerts' = IF filterChanges(FilterView(summarizedChanges), href)
                              \notin {NULL, TypeError}
                        THEN Append(hAlerts, batch) ELSE hAlerts

\* The observer notifies the handler of a batch; without the delay the
\* handler runs to its end in microtasks, before any other task
notifyHandler(changes) ==
    LET processedGroups == ProcessedGroups(changes)
    IN  /\ hNotified < MaxBatches
        /\ now + simulatedDelay <= MaxTime
        /\ hNotified' = hNotified + 1
        /\ IF AwaitsDelay(changes)
           THEN /\ hInFlight' = Append(hInFlight, [batch |-> hNotified + 1,
                                                   groups |-> processedGroups,
                                                   due |-> now + simulatedDelay])
                /\ UNCHANGED <<contextHistory, hAlerts, filterVars, alertVars>>
           ELSE /\ contextHistory' = BatchHistory(contextHistory, processedGroups)
                /\ handlerContinue(hNotified + 1, _combineGroupResults(processedGroups))
                /\ UNCHANGED hInFlight
        /\ UNCHANGED <<detectorVars, prChange, prSummary, prCalled, prResult,
                       localProcessingOnly, smChange, smResult, smIsArray, smGroups,
                       initialization>>

\* The timer of the simulated delay fires: summarizeChanges settles and the
\* handler goes on
handlerResume ==
    /\ hInFlight # <<>>
    /\ now >= Head(hInFlight).due
    /\ hInFlight' = Tail(hInFlight)
    /\ contextHistory' = BatchHistory(contextHistory, Head(hInFlight).groups)
    /\ handlerContinue(Head(hInFlight).batch, _combineGroupResults(Head(hInFlight).groups))
    /\ UNCHANGED <<detectorVars, prChange, prSummary, prCalled, prResult, hNotified,
                   localProcessingOnly, smChange, smResult, smIsArray, smGroups,
                   initialization>>

\* ---- initializePreferences(storedPreferences): the new userPreferences
initializePreferences(storedPreferences) ==
    IF storedPreferences = NULL THEN userPreferences
    ELSE storedPreferences @@ userPreferences

\* result.preferences as chrome.storage.sync.get delivers it: NULL when
\* nothing is stored, otherwise an object with an entry for either module,
\* for both or for none
StoredFiltering ==
    [global |-> [priorityThreshold |-> 3,
                 contentTypePreferences |-> DefaultContentTypePreferences]]
StoredAlertSystem == {[defaultAlertMethod |-> "visual"], [audioEnabled |-> FALSE]}
StoredPreferences ==
    {NULL, <<>>, [priorityFiltering |-> StoredFiltering]}
        \cup {[alertSystem |-> preferences] : preferences \in StoredAlertSystem}
        \cup {[priorityFiltering |-> StoredFiltering, alertSystem |-> preferences] :
                 preferences \in StoredAlertSystem}

\* ---- the callback of chrome.storage.sync.get in initializeExtension.
\* updatePreferences(undefined) of the alert system throws on reading
\* preferences.contentTypeAlertMethods, which ends the callback
storageCallback(preferences) ==
    LET storedPreferences == IF preferences = NULL THEN <<>> ELSE preferences
        priorityFiltering == IF "priorityFiltering" \in DOMAIN storedPreferences
                             THEN storedPreferences.priorityFiltering ELSE NULL
        alertSystem == IF "alertSystem" \in DOMAIN storedPreferences
                       THEN storedPreferences.alertSystem ELSE NULL
    IN  /\ alertInitialized
        /\ initialization = "pending"
        /\ userPreferences' = initializePreferences(priorityFiltering)
        /\ IF alertSystem = NULL
           THEN /\ initialization' = "aborted"
                /\ UNCHANGED <<alertVars, observer, changeListeners>>
           ELSE /\ updateAlertPreferences(alertSystem)
                /\ observer' = TRUE
                /\ changeListeners' = Append(changeListeners, Len(changeListeners) + 1)
                /\ initialization' = "done"
        /\ UNCHANGED <<now, lastProcessedTime, pendingChanges, isProcessing, flushTimers,
                       handed, passes, analyzeVars, faultyListeners>>
        /\ UNCHANGED <<prChange, prSummary, prCalled, prResult, localProcessingOnly,
                       contextHistory, smChange, smResult, smIsArray, smGroups,
                       hInFlight, hNotified, hAlerts>>
        /\ UNCHANGED <<interactionHistory, submitted, delivered, lastFilter, prefUpdates,
                       lastLearning, enableLearning>>

\* recordInteraction, called by the notification UI
recordInteractionCall(change, interaction) ==
    /\ Len(interactionHistory) < MaxInteractions
    /\ recordInteraction(change, interaction)
    /\ lastFilter' = NULL
    /\ UNCHANGED <<submitted, delivered, prefUpdates, lastLearning, enableLearning>>

\* ========================================================================
\* The public interface of PriorityFilteringModule called directly:
\* filterChanges, updatePreferences, recordInteraction
\* ========================================================================
\* Number of updatePreferences calls.
MaxPrefUpdates == 2

\* Summaries handed to filterChanges: every content type but media and
\* navigation, with priorities on both sides of the thresholds
FilterPool ==
    {[summary |-> "sponsor", priority |-> 10, context |-> SummaryContext(FALSE, "", "")],
     [summary |-> "sponsor", priority |-> 4, context |-> SummaryContext(FALSE, "", "")],
     [summary |-> "Form error", priority |-> 8,
      context |-> SummaryContext(TRUE, "textbox", "")],
     [summary |-> "Form error", priority |-> 3,
      context |-> SummaryContext(TRUE, "textbox", "")],
     [summary |-> "New message", priority |-> 6,
      context |-> SummaryContext(FALSE, "", "Chat")],
     [summary |-> "New message", priority |-> 4,
      context |-> SummaryContext(FALSE, "", "Chat")],
     [summary |-> "saved", priority |-> 5, context |-> SummaryContext(FALSE, "", "")],
     [summary |-> "saved", priority |-> 4, context |-> SummaryContext(FALSE, "", "")],
     [summary |-> "saved", priority |-> 7, context |-> SummaryContext(TRUE, "textbox", "")],
     [summary |-> "ok", priority |-> 6, context |-> SummaryContext(FALSE, "", "")]}

\* Summaries for the classification: texts of 0, 1, 2 and more characters,
\* with and without keywords, in every kind of context
ClassifyPool ==
    [summary : {"", "k", "ok", "Saved", "Error saving", "WARNING: low disk",
                "New message", "Sponsored post"},
     priority : {3, 8},
     context : [isForm : BOOLEAN,
                role : {"", "link", "button", "navigation", "img", "heading"},
                section : {"", "Chat room", "Sponsored"}]]

\* Notifications the user interacts with: one per summary text.  Below ten
\* recorded interactions no learning pass runs, so the kind of interaction
\* has no effect on filtering and one kind is recorded.
RecordedPool == {change \in FilterPool : change.priority \in {8, 10}}
RecordedInteractions == {"viewed"}

\* siteUrl arguments: none, and a site
SiteUrls == {"", href}

\* newPreferences arguments of updatePreferences
NewPreferences ==
    {[priorityThreshold |-> 2],
     [priorityThreshold |-> 8],
     [contentTypePreferences |-> ("advertisement" :> [enabled |-> TRUE, minPriority |-> 3])],
     [contentTypePreferences |-> ("error" :> [enabled |-> FALSE, minPriority |-> 3])],
     [contentTypePreferences |-> ("text" :> [enabled |-> TRUE, minPriority |-> 4])]}

\* What a filterChanges call did, for lastFilter
FilterCallRecord(change, siteUrl) ==
    LET result == filterChanges(change, siteUrl)
        preferences == _getApplicablePreferences(siteUrl)
        contentType == _determineContentType(change)
    IN  [change |-> change,
         siteUrl |-> siteUrl,
         outcome |-> IF result = TypeError THEN "threw"
                     ELSE IF result = NULL THEN "rejected" ELSE "accepted",
         contentType |-> contentType,
         preferences |-> preferences,
         globalThreshold |-> userPreferences.global.priorityThreshold,
         repeated |-> /\ lastFilter # NULL
                      /\ lastFilter.change = change
                      /\ lastFilter.siteUrl = siteUrl]

\* A filterChanges that also records what it accepted as a recent notification
filterChangesCallRecording(change, siteUrl) ==
    /\ lastFilter' = FilterCallRecord(change, siteUrl)
    /\ Len(interactionHistory) < MaxInteractions + 1
    /\ interactionHistory' =
          IF filterChanges(change, siteUrl) \notin {NULL, TypeError}
          THEN Append(interactionHistory,
                      [summary |-> change.summary,
                       contentType |-> _determineContentType(change),
                       priority |-> change.priority,
                       interaction |-> "viewed"])
          ELSE interactionHistory
    /\ UNCHANGED <<userPreferences, submitted, delivered, prefUpdates, lastLearning, enableLearning>>

\* filterChanges(change, siteUrl) called directly: it reads userPreferences and
\* interactionHistory and assigns nothing
filterChangesCall(change, siteUrl) ==
    /\ lastFilter' = FilterCallRecord(change, siteUrl)
    /\ UNCHANGED <<userPreferences, interactionHistory, submitted, delivered, prefUpdates,
                   lastLearning, enableLearning>>

updatePreferencesCall(newPreferences, siteUrl) ==
    /\ prefUpdates < MaxPrefUpdates
    /\ prefUpdates' = prefUpdates + 1
    /\ userPreferences' = updatePreferences(newPreferences, siteUrl)
    /\ lastFilter' = NULL
    /\ UNCHANGED <<interactionHistory, submitted, delivered, lastLearning, enableLearning>>

\* ========================================================================
\* Learning from recorded interactions
\* ========================================================================
\* Number of interactions recorded in a row, and how many of them may be
\* other than dismissals.
MaxRecorded == 20
MaxNotDismissed == 5

ChatChange ==
    [summary |-> "New message", priority |-> 6,
     context |-> SummaryContext(FALSE, "", "Chat")]
TextChange ==
    [summary |-> "saved", priority |-> 5, context |-> SummaryContext(FALSE, "", "")]

NotDismissed(history) ==
    Cardinality({i \in 1..Len(history) : history[i].interaction # "dismissed"})

\* What a recordInteraction call did, for lastLearning
LearningRecord ==
    [before |-> userPreferences, history |-> interactionHistory', after |-> userPreferences']

\* recordInteraction for a chat notification that was dismissed or only viewed
recordChatInteraction(interaction) ==
    /\ Len(interactionHistory) < MaxRecorded
    /\ interaction # "dismissed" => NotDismissed(interactionHistory) < MaxNotDismissed
    /\ recordInteraction(ChatChange, interaction)
    /\ lastFilter' = NULL
    /\ lastLearning' = LearningRecord
    /\ UNCHANGED <<submitted, delivered, prefUpdates, enableLearning>>

\* ---- one recordInteraction on a module that already holds a history and
\* preferences (loaded by initializePreferences or left by earlier calls)
HistoryItem(change, interaction) ==
    [summary |-> change.summary,
     contentType |-> _determineContentType(change),
     priority |-> change.priority,
     interaction |-> interaction]

HistoryItems == {HistoryItem(change, i) : change \in {ChatChange, TextChange}, i \in Interactions}

Run(item, n) == [i \in 1..n |-> item]

\* Histories of up to 22 entries made of three runs of equal entries, the
\* oldest run the longest
LearnedHistories ==
    {Run(a, n) \o Run(b, m) \o Run(c, k) :
        a \in HistoryItems, b \in HistoryItems, c \in HistoryItems,
        n \in {0, 6, 16}, m \in 0..3, k \in {0, 2}}

\* Preferences with chat.minPriority at the floor, in between and at the cap
LearnedPreferences ==
    {[DefaultUserPreferences EXCEPT !.global.contentTypePreferences.chat.minPriority = p] :
        p \in {1, 4, 10}}

InitLearned ==
    /\ userPreferences \in LearnedPreferences
    /\ interactionHistory \in LearnedHistories
    /\ submitted = <<>>
    /\ delivered = <<>>
    /\ lastFilter = NULL
    /\ prefUpdates = 0
    /\ lastLearning = NULL
    /\ enableLearning = TRUE

recordOneInteraction(change, interaction) ==
    /\ lastLearning = NULL
    /\ recordInteraction(change, interaction)
    /\ lastFilter' = NULL
    /\ lastLearning' = LearningRecord
    /\ UNCHANGED <<submitted, delivered, prefUpdates, enableLearning>>

\* ---- recordInteraction calls in a row on a module constructed with
\* enableLearning on or off, between updatePreferences calls
\* Number of recordInteraction calls in a row.
MaxCalls == 2

\* Histories left by earlier calls: none, too few for a learning pass, enough
FrameHistories == {Run(item, n) : item \in HistoryItems, n \in {0, 8, 17}}

InitLearnedFrame ==
    /\ userPreferences = DefaultUserPreferences
    /\ interactionHistory \in FrameHistories
    /\ submitted = <<>>
    /\ delivered = <<>>
    /\ lastFilter = NULL
    /\ prefUpdates = 0
    /\ lastLearning = NULL
    /\ enableLearning \in BOOLEAN

\* recordInteraction; lastLearning also counts the calls and keeps the
\* history the call found
recordNextInteraction(change, interaction) ==
    /\ lastLearning # NULL => lastLearning.calls < MaxCalls
    /\ recordInteraction(change, interaction)
    /\ lastFilter' = NULL
    /\ lastLearning' = [calls |-> IF lastLearning = NULL THEN 1 ELSE lastLearning.calls + 1,
                        historyBefore |-> interactionHistory] @@ LearningRecord
    /\ UNCHANGED <<submitted, delivered, prefUpdates, enableLearning>>

\* ========================================================================
\* Specifications
\* ========================================================================
IdleAlert ==
    /\ queueAlerts = TRUE
    /\ alertQueue = <<>>
    /\ alertIsProcessing = FALSE
    /\ drainLoops = 0
    /\ rendering = {}
    /\ shown = 0
    /\ started = <<>>
    /\ finished = {}
    /\ evicted = {}
    /\ InitAlertMethods

IdlePriority ==
    /\ prChange = [type |-> "unknown", context |-> NULL]
    /\ prSummary = ""
    /\ prCalled = FALSE
    /\ prResult = 0
    /\ IdleSummarizer

\* ---- the change observer alone
InitObserver == InitDetector /\ IdleAlert /\ IdlePriority /\ InitFilter
NextObserver ==
    \/ startObserving /\ UNCHANGED <<alertVars, priorityVars, filterVars>>
    \/ stopObserving /\ UNCHANGED <<alertVars, priorityVars, filterVars>>
    \/ onSignificantChange /\ UNCHANGED <<alertVars, priorityVars, filterVars>>
    \/ \E burst \in Bursts :
          _handleMutations(burst) /\ UNCHANGED <<alertVars, priorityVars, filterVars>>
    \/ _processPendingChanges /\ UNCHANGED <<alertVars, priorityVars, filterVars>>
    \/ Tick /\ UNCHANGED <<alertVars, priorityVars, filterVars>>
SpecObserver == InitObserver /\ [][NextObserver]_vars
\* The same observer for the liveness of the throttle: the event loop runs
\* every due setTimeout callback and the clock advances.  What a record holds
\* does not matter to the buffering, so the bursts are of one record shape.
LiveBursts == {burst \in Bursts : \A i \in 1..Len(burst) : burst[i] = RecAddLong}
TickStep == Tick /\ UNCHANGED <<alertVars, priorityVars, filterVars>>
FlushStep == _processPendingChanges /\ UNCHANGED <<alertVars, priorityVars, filterVars>>
NextObserverLive ==
    \/ startObserving /\ UNCHANGED <<alertVars, priorityVars, filterVars>>
    \/ stopObserving /\ UNCHANGED <<alertVars, priorityVars, filterVars>>
    \/ \E burst \in LiveBursts :
          _handleMutations(burst) /\ UNCHANGED <<alertVars, priorityVars, filterVars>>
    \/ FlushStep
    \/ TickStep
FairSpecObserver ==
    InitObserver /\ [][NextObserverLive]_vars /\ WF_vars(TickStep) /\ WF_vars(FlushStep)

\* ---- the observer with listeners that throw
\* Most listeners registered
MaxRegistered == 2
NextListeners ==
    \/ startObserving /\ UNCHANGED <<alertVars, priorityVars, filterVars>>
    \/ \E throws \in BOOLEAN :
          register(throws, MaxRegistered) /\ UNCHANGED <<alertVars, priorityVars, filterVars>>
    \/ \E burst \in LiveBursts :
          _handleMutations(burst) /\ UNCHANGED <<alertVars, priorityVars, filterVars>>
    \/ FlushStep
    \/ TickStep
SpecListeners == InitObserver /\ [][NextListeners]_vars

\* ---- _analyzeChangeGroup on every group of records
InitAnalyzeGroup == InitAnalyze /\ IdleAlert /\ IdlePriority /\ InitFilter
NextAnalyzeGroup ==
    analyzeChangeGroupCall /\ UNCHANGED <<alertVars, priorityVars, filterVars>>
SpecAnalyze == InitAnalyzeGroup /\ [][NextAnalyzeGroup]_vars

\* ---- the alert dispatcher alone
InitAlertSystem == InitAlert /\ InitDetector /\ IdlePriority /\ InitFilter
NextAlertSystem ==
    \/ showAlert /\ UNCHANGED <<detectorVars, priorityVars, filterVars>>
    \/ \E r \in InFlight :
          renderComplete(r) /\ UNCHANGED <<detectorVars, priorityVars, filterVars>>
SpecAlert == InitAlertSystem /\ [][NextAlertSystem]_vars

\* Every render completes: the promise of a _showSingleAlert call in flight
\* is eventually settled
FairSpecAlert ==
    /\ SpecAlert
    /\ WF_vars(\E r \in InFlight :
                  renderComplete(r) /\ UNCHANGED <<detectorVars, priorityVars, filterVars>>)

\* ---- the alert dispatcher with cleanup() called at any time
NextCleanup ==
    \/ showAlert /\ UNCHANGED <<detectorVars, priorityVars, filterVars>>
    \/ \E r \in InFlight :
          renderComplete(r) /\ UNCHANGED <<detectorVars, priorityVars, filterVars>>
    \/ cleanup /\ UNCHANGED <<detectorVars, priorityVars, filterVars>>
SpecCleanup == InitAlertSystem /\ [][NextCleanup]_vars

\* ---- the alert method of every alert under every configuration
NextAlertMethod ==
    \/ \E preferences \in AlertPreferences :
          updateAlertPreferences(preferences)
              /\ UNCHANGED <<detectorVars, priorityVars, filterVars>>
    \/ \E alertData \in AlertData :
          _showSingleAlert(alertData) /\ UNCHANGED <<detectorVars, priorityVars, filterVars>>
SpecAlertMethod == InitAlertSystem /\ [][NextAlertMethod]_vars

\* ---- the audio channel: initialize, preferences that set audioEnabled, alerts
NextAudio ==
    \/ \E created \in BOOLEAN :
          initialize(created) /\ UNCHANGED <<detectorVars, priorityVars, filterVars>>
    \/ \E preferences \in AudioPreferences \cup AlertPreferences :
          updateAlertPreferences(preferences)
              /\ UNCHANGED <<detectorVars, priorityVars, filterVars>>
    \/ \E alertData \in AlertData :
          _showSingleAlert(alertData) /\ UNCHANGED <<detectorVars, priorityVars, filterVars>>
SpecAudio == InitAlertSystem /\ [][NextAudio]_vars

\* ---- _determinePriority on every input
InitPriorityCall == InitPriority /\ InitDetector /\ IdleAlert /\ InitFilter
NextPriorityCall == determinePriorityCall /\ UNCHANGED <<detectorVars, alertVars, filterVars>>
SpecPriority == InitPriorityCall /\ [][NextPriorityCall]_vars

\* ---- the preference filter alone
InitFilterModule == InitFilter /\ IdleAlert /\ InitDetector /\ IdlePriority
NextFilterModule ==
    \/ \E change \in FilterPool, siteUrl \in SiteUrls :
          filterChangesCall(change, siteUrl)
              /\ UNCHANGED <<detectorVars, alertVars, priorityVars>>
    \/ \E newPreferences \in NewPreferences, siteUrl \in SiteUrls :
          updatePreferencesCall(newPreferences, siteUrl)
              /\ UNCHANGED <<detectorVars, alertVars, priorityVars>>
    \/ \E change \in RecordedPool, interaction \in RecordedInteractions :
          recordInteractionCall(change, interaction)
              /\ UNCHANGED <<detectorVars, alertVars, priorityVars>>
SpecFilter == InitFilterModule /\ [][NextFilterModule]_vars

\* ---- filterChanges on every kind of summary, with the default preferences
NextClassify ==
    \E change \in ClassifyPool, siteUrl \in SiteUrls :
        lastFilter = NULL
            /\ filterChangesCall(change, siteUrl)
            /\ UNCHANGED <<detectorVars, alertVars, priorityVars>>
SpecClassify == InitFilterModule /\ [][NextClassify]_vars

\* ---- chat notifications recorded one after the other from construction
InitLearning == InitFilter /\ IdleAlert /\ InitDetector /\ IdlePriority
NextLearning ==
    \E interaction \in {"dismissed", "viewed"} :
        recordChatInteraction(interaction)
            /\ UNCHANGED <<detectorVars, alertVars, priorityVars>>
SpecLearning == InitLearning /\ [][NextLearning]_vars

\* ---- one learning pass on every history and preference state
InitLearningPass == InitLearned /\ IdleAlert /\ InitDetector /\ IdlePriority
NextLearningPass ==
    \E change \in {ChatChange, TextChange}, interaction \in Interactions :
        recordOneInteraction(change, interaction)
            /\ UNCHANGED <<detectorVars, alertVars, priorityVars>>
SpecLearningPass == InitLearningPass /\ [][NextLearningPass]_vars

\* ---- recordInteraction calls and updatePreferences calls, learning on or off
InitLearningFrame == InitLearnedFrame /\ IdleAlert /\ InitDetector /\ IdlePriority
NextLearningFrame ==
    \/ \E change \in {ChatChange, TextChange}, interaction \in {"dismissed", "clicked"} :
          recordNextInteraction(change, interaction)
              /\ UNCHANGED <<detectorVars, alertVars, priorityVars>>
    \/ \E newPreferences \in NewPreferences, siteUrl \in SiteUrls :
          updatePreferencesCall(newPreferences, siteUrl)
              /\ UNCHANGED <<detectorVars, alertVars, priorityVars>>
SpecLearningFrame == InitLearningFrame /\ [][NextLearningFrame]_vars

\* ---- summarizeChanges on every single change event
InitSummarize ==
    /\ InitSummarizer
    /\ prChange = [type |-> "unknown", context |-> NULL]
    /\ prSummary = ""
    /\ prCalled = FALSE
    /\ prResult = 0
    /\ InitDetector /\ IdleAlert /\ InitFilter
NextSummarize ==
    summarizeChanges
        /\ UNCHANGED <<prChange, prSummary, prCalled, prResult, detectorVars, alertVars,
                       filterVars>>
SpecSummarize == InitSummarize /\ [][NextSummarize]_vars

\* ---- summarizeChanges on single events and on batches
InitSummarizeAny ==
    /\ InitSummarizerAny
    /\ prChange = [type |-> "unknown", context |-> NULL]
    /\ prSummary = ""
    /\ prCalled = FALSE
    /\ prResult = 0
    /\ InitDetector /\ IdleAlert /\ InitFilter
SpecBatch == InitSummarizeAny /\ [][NextSummarize]_vars

\* ---- summaries through the preference filter into the alert dispatcher
\* initializeExtension constructs every module with its default options
InitPipeline == InitFilter /\ IdleAlert /\ InitDetector /\ IdlePriority
NextPipeline ==
    \/ \E s \in SummaryPool : pipelineHandler(s) /\ UNCHANGED <<detectorVars, priorityVars>>
    \/ \E s \in SummaryPool, i \in Interactions :
          recordInteractionCall(s, i) /\ UNCHANGED <<detectorVars, priorityVars, alertVars>>
    \/ \E r \in InFlight :
          renderComplete(r) /\ UNCHANGED <<detectorVars, priorityVars, filterVars>>
SpecPipeline == InitPipeline /\ [][NextPipeline]_vars

\* ---- initializeExtension: initialize, the storage callback, then the
\* observer at work
NextStartup ==
    \/ \E created \in BOOLEAN :
          initialize(created) /\ UNCHANGED <<detectorVars, priorityVars, filterVars>>
    \/ \E preferences \in StoredPreferences : storageCallback(preferences)
    \/ \E burst \in LiveBursts :
          _handleMutations(burst) /\ UNCHANGED <<alertVars, priorityVars, filterVars>>
    \/ FlushStep
    \/ TickStep
SpecStartup == InitPipeline /\ [][NextStartup]_vars

\* ---- the pipeline handler with its awaits: batches notified by the observer,
\* the timers of the simulated delay, the renders of the alert dispatcher
NextHandler ==
    \/ \E changes \in Batches(1) : notifyHandler(changes)
    \/ handlerResume
    \/ TickStep
    \/ \E r \in InFlight :
          renderComplete(r) /\ UNCHANGED <<detectorVars, priorityVars, filterVars>>
SpecHandler == InitPipeline /\ [][NextHandler]_vars

\* ========================================================================
\* Claims
\* ========================================================================

\* ---- C1 (as stated; refuted).  Of two summaries with identical text passed
\* through the pipeline handler one after the other, at most one is handed to
\* alertSystem.showAlert.
C1_DuplicateRejection ==
    \A i \in 1..(Len(submitted) - 1) :
        submitted[i].summary = submitted[i + 1].summary
            => ~(submitted[i].accepted /\ submitted[i + 1].accepted)

\* ---- C2 (as stated; refuted).  Once stopObserving has returned no change
\* listener is invoked: no processing pass that runs while the observer is
\* disconnected notifies a listener.
C2_NoNotificationAfterStop ==
    \A i \in 1..Len(passes) : ~passes[i].observing => passes[i].notified = <<>>

\* Number of times mutation record id was passed to _processMutations
ProcessedCount(id) ==
    Cardinality({<<i, k>> \in (1..Len(passes)) \X (1..MaxRecords) :
                    k <= Len(passes[i].mutations) /\ passes[i].mutations[k] = id})

PendingIds == {pendingChanges[i].id : i \in 1..Len(pendingChanges)}

\* ---- C3.  Every mutation record handed to _handleMutations is passed to
\* _processMutations exactly once: never twice, and while it has not been
\* processed it is buffered in pendingChanges with a flush timer scheduled,
\* and it is eventually processed.
C3_ProcessedExactlyOnce ==
    /\ [](\A id \in 1..MaxRecords :
            id <= handed =>
                /\ ProcessedCount(id) <= 1
                /\ ProcessedCount(id) = 0 => (id \in PendingIds /\ flushTimers # <<>>))
    /\ \A id \in 1..MaxRecords : (id <= handed) ~> (ProcessedCount(id) = 1)

\* Witness of C3: records went both ways (immediately and by the deferred
\* flush) and every record delivered has been processed once.
C3_Witness ==
    /\ handed = MaxRecords
    /\ \A id \in 1..MaxRecords : ProcessedCount(id) = 1
    /\ \E i \in 1..Len(passes) : passes[i].via = "immediate"
    /\ \E i \in 1..Len(passes) : passes[i].via = "flush" /\ Len(passes[i].mutations) >= 2

\* ---- C4 (as stated; refuted).  Two consecutive processing passes are at
\* least throttleTime apart, and at most one deferred flush is scheduled.
C4_PassesThrottled ==
    /\ \A i \in 1..(Len(passes) - 1) :
          passes[i + 1].time - passes[i].time >= throttleTime
    /\ Len(flushTimers) <= 1

C6_OneRenderAtATime ==
    queueAlerts => (drainLoops <= 1 /\ Cardinality(rendering) <= 1)

\* Witness of C6: an alert is being rendered by the loop while others wait,
\* after earlier renders completed.
C6_Witness ==
    /\ queueAlerts
    /\ drainLoops = 1
    /\ Cardinality(rendering) = 1
    /\ Len(alertQueue) >= 2
    /\ finished # {}

\* ---- C7.  alertQueue never holds more than maxQueueSize alerts, and an
\* alert dropped by showAlert is the head of the queue: older than every
\* alert that stays pending, and not the alert just inserted.
C7_BoundedQueueEvictsOldest ==
    /\ [](Len(alertQueue) <= maxQueueSize)
    /\ [][\A a \in evicted' \ evicted :
            /\ alertQueue # <<>>
            /\ a = Head(alertQueue)
            /\ a # shown'
            /\ \A b \in Range(alertQueue') : a < b]_vars

\* Witness of C7: an alert was evicted and the queue is full.
C7_Witness ==
    /\ evicted # {}
    /\ Len(alertQueue) = maxQueueSize
    /\ shown \in Range(alertQueue)

C9_PriorityInRange ==
    prCalled => prResult \in 1..10

\* Witness of C9: the adjustments add up to more than 10 and the result is 10.
C9_Witness ==
    /\ prCalled
    /\ prChange.context # NULL
    /\ prChange.context.isLiveRegion
    /\ prChange.context.role = "heading"
    /\ prChange.type = "addition"
    /\ prResult = 10

Indicator(b) == IF b THEN 1 ELSE 0

HasErrorIndicator(summary) == includes(summary, "error") \/ includes(summary, "Error")

HasKeyword(summary) ==
    \E w \in {"error", "Error", "alert", "Alert", "warning", "Warning"} :
        includes(summary, w)

Clamp(x, lo, hi) == IF x < lo THEN lo ELSE IF x > hi THEN hi ELSE x

\* ---- C10.  The priority is clamp(5 + 3 [live region] + [interactive]
\* + 3 [form and error indicator in the summary] + 2 [role heading]
\* + 2 [error/alert/warning keyword in the summary] + [addition] - [removal]
\* + [group], 1, 10); an event without context has no context adjustment.
C10_PriorityFormula ==
    prCalled =>
        LET c == prChange.context
            has == c # NULL
        IN  prResult =
              Clamp(5 + 3 * Indicator(has /\ c.isLiveRegion)
                      + Indicator(has /\ c.isInteractive)
                      + 3 * Indicator(has /\ c.isForm /\ HasErrorIndicator(prSummary))
                      + 2 * Indicator(has /\ c.role = "heading")
                      + 2 * Indicator(HasKeyword(prSummary))
                      + Indicator(prChange.type = "addition")
                      - Indicator(prChange.type = "removal")
                      + Indicator(prChange.type = "group"),
                    1, 10)

\* Witness of C10: a removal in a form whose summary reports an error:
\* 5 + 3 + 2 - 1 = 9.
C10_Witness ==
    /\ prCalled
    /\ prChange.context # NULL
    /\ prChange.context.isForm
    /\ ~prChange.context.isLiveRegion
    /\ ~prChange.context.isInteractive
    /\ prChange.context.role = ""
    /\ prChange.type = "removal"
    /\ HasErrorIndicator(prSummary)
    /\ prResult = 9


C12_DisabledCategoryRejected ==
    lastFilter # NULL =>
        LET types == lastFilter.preferences.contentTypePreferences
        IN  (/\ lastFilter.contentType \in DOMAIN types
             /\ ~types[lastFilter.contentType].enabled)
                => lastFilter.outcome = "rejected"

\* A priority 10 advertisement was filtered while advertisement is disabled
C12_Witness ==
    /\ lastFilter # NULL
    /\ lastFilter.contentType = "advertisement"
    /\ lastFilter.change.priority = 10
    /\ ~lastFilter.preferences.contentTypePreferences["advertisement"].enabled
    /\ lastFilter.outcome = "rejected"

\* The minPriority filterChanges applies to a category: that of its entry in
\* the effective preferences, that of text when the category has no entry
AppliedMinPriority(call) ==
    LET types == call.preferences.contentTypePreferences
    IN  IF call.contentType \in DOMAIN types
        THEN types[call.contentType].minPriority
        ELSE types["text"].minPriority

\* ---- C13 (as stated; refuted).  Every Summary accepted by filterChanges has
\* priority at least max(minPriority of its category in the effective
\* preferences, the global priorityThreshold).
C13_AcceptedAboveGlobalThreshold ==
    (lastFilter # NULL /\ lastFilter.outcome = "accepted") =>
        /\ lastFilter.change.priority >= AppliedMinPriority(lastFilter)
        /\ lastFilter.change.priority >= lastFilter.globalThreshold

\* ---- C13 (amended).  Every Summary accepted by filterChanges has priority
\* at least max(minPriority applied to its category, the priorityThreshold of
\* the effective preferences), where a site override of priorityThreshold
\* replaces the global one; a Summary below that maximum is never accepted.
C13_AcceptedAboveEffectiveThreshold ==
    (lastFilter # NULL /\ lastFilter.outcome # "threw") =>
        LET below == \/ lastFilter.change.priority < AppliedMinPriority(lastFilter)
                     \/ lastFilter.change.priority < lastFilter.preferences.priorityThreshold
        IN  /\ lastFilter.outcome = "accepted" => ~below
            /\ below => lastFilter.outcome = "rejected"

\* A Summary below the global threshold was accepted on a site whose override
\* lowers priorityThreshold
C13_Witness ==
    /\ lastFilter # NULL
    /\ lastFilter.outcome = "accepted"
    /\ lastFilter.change.priority < lastFilter.globalThreshold
    /\ lastFilter.preferences.priorityThreshold < lastFilter.globalThreshold


\* ---- C14 (as stated; refuted).  After 20 interactions recorded through
\* recordInteraction, all of category chat and 15 of them dismissals, in any
\* order, chat.minPriority is exactly 1 higher than before the first of them.
C14_ChatRaisedByOne ==
    (/\ Len(interactionHistory) = 20
     /\ \A i \in 1..20 : interactionHistory[i].contentType = "chat"
     /\ NotDismissed(interactionHistory) = 5)
        => userPreferences.global.contentTypePreferences.chat.minPriority
             = DefaultContentTypePreferences.chat.minPriority + 1

\* The entries of the history that a learning pass looks at
Recent20(history) == SubSeq(history, Max(1, Len(history) - 19), Len(history))

Occurrences(history, type) ==
    Cardinality({i \in 1..Len(history) : history[i].contentType = type})

OccurrencesOf(history, type, interaction) ==
    Cardinality({i \in 1..Len(history) :
        history[i].contentType = type /\ history[i].interaction = interaction})

\* The minPriority the learning rule gives category type, when the rule
\* applies to categories with at least atLeast occurrences among the recent
\* entries
LearnedMinPriority(call, type, atLeast) ==
    LET recent == Recent20(call.history)
        n == Occurrences(recent, type)
        old == call.before.global.contentTypePreferences[type].minPriority
    IN  IF Len(call.history) < 10 \/ n < atLeast THEN old
        ELSE IF 10 * OccurrencesOf(recent, type, "dismissed") > 7 * n
        THEN (IF old + 1 > 10 THEN 10 ELSE old + 1)
        ELSE IF 10 * OccurrencesOf(recent, type, "clicked") > 3 * n
        THEN (IF old - 1 < 1 THEN 1 ELSE old - 1)
        ELSE old

\* ---- C15 (as stated; refuted).  A learning pass runs only when the history
\* has at least 10 entries and looks at the 20 most recent; for every
\* category that occurs among them, a dismissed fraction above 0.7 raises its
\* global minPriority by 1 (never above 10) and a clicked fraction above 0.3
\* lowers it by 1 (never below 1).
C15_LearningPassEveryCategory ==
    lastLearning # NULL =>
        \A type \in ContentTypes :
            lastLearning.after.global.contentTypePreferences[type].minPriority
                = LearnedMinPriority(lastLearning, type, 1)

\* ---- C15 (amended).  The same, for every category that occurs at least 3
\* times among the 20 most recent entries; a category with fewer occurrences
\* keeps its minPriority.
C15_LearningPassFrequentCategory ==
    lastLearning # NULL =>
        \A type \in ContentTypes :
            lastLearning.after.global.contentTypePreferences[type].minPriority
                = LearnedMinPriority(lastLearning, type, 3)

\* A pass over more than 20 entries raised chat and left a category with two
\* dismissed entries alone
C15_Witness ==
    /\ lastLearning # NULL
    /\ Len(lastLearning.history) > 20
    /\ lastLearning.after.global.contentTypePreferences.chat.minPriority
         = lastLearning.before.global.contentTypePreferences.chat.minPriority + 1
    /\ Occurrences(Recent20(lastLearning.history), "text") = 2
    /\ OccurrencesOf(Recent20(lastLearning.history), "text", "dismissed") = 2


\* The text of a change event: content.new, or content.text when content.new
\* is empty
EventText(changeData) ==
    IF changeData.content.new # "" THEN changeData.content.new ELSE changeData.content.text

\* ---- C16.  For every change event of kind text in a live region whose text
\* is shorter than minContentLength, summarizeChanges returns a direct summary
\* whose text is the event's text unchanged, with priority at least 8,
\* whatever the role, label, interactive and form flags are.
C16_LiveRegionDirectSummary ==
    (/\ smResult # NULL
     /\ smChange.type = "text"
     /\ smChange.context # NULL
     /\ smChange.context.isLiveRegion
     /\ length(EventText(smChange)) < minContentLength)
        => /\ smResult.isDirectSummary
           /\ smResult.summary = EventText(smChange)
           /\ smResult.priority >= 8

\* "3 new messages" changed in a live region that is also a labelled,
\* interactive form control
C16_Witness ==
    /\ smResult # NULL
    /\ smChange.type = "text"
    /\ smChange.context # NULL
    /\ smChange.context.isLiveRegion
    /\ smChange.context.isForm
    /\ smChange.context.isInteractive
    /\ smChange.context.role = "button"
    /\ smChange.context.label = "Submit"
    /\ smResult.summary = "3 new messages"
    /\ smResult.priority >= 8

\* ---- C17 (as stated; refuted).  For every change event of kind addition
\* whose role is heading, outside a live region, with a text T of any length
\* (not empty, as in every emitted addition), the summary text is
\* "New section: " followed by T.
C17_HeadingAddition ==
    (/\ smResult # NULL
     /\ smChange.type = "addition"
     /\ smChange.context # NULL
     /\ smChange.context.role = "heading"
     /\ ~smChange.context.isLiveRegion
     /\ EventText(smChange) # "")
        => smResult.summary = "New section: " \o EventText(smChange)

\* ---- C18 (as stated; refuted).  For every change event of kind removal on
\* an interactive button outside a live region, the events built for a button
\* element (isForm, the button's text as label) included, the summary text is
\* "Button removed" and the priority is exactly 5.
C18_ButtonRemoved ==
    (/\ smResult # NULL
     /\ smChange.type = "removal"
     /\ smChange.content = [text |-> "", new |-> "[Content removed]"]
     /\ smChange.context # NULL
     /\ smChange.context.role = "button"
     /\ smChange.context.isInteractive
     /\ ~smChange.context.isLiveRegion)
        => /\ smResult.summary = "Button removed"
           /\ smResult.priority = 5


\* A record of the group adds or removes nodes
HasChildListChange(group) ==
    \E i \in 1..Len(group) :
        /\ group[i].type = "childList"
        /\ Len(group[i].addedNodes) + Len(group[i].removedNodes) > 0

\* A record of the group changes an attribute whose name starts with "aria-"
HasAriaChange(group) ==
    \E i \in 1..Len(group) :
        /\ group[i].type = "attributes"
        /\ group[i].attributeName \in {"aria-expanded", "aria-hidden"}

OnIgnoreLists(element) ==
    \/ element.tagName \in ignoredTags
    \/ element.classList \cap ignoredClasses # {}

C20_EmittedEventsPassGate ==
    (anCalled /\ anResult # NULL) =>
        LET content == anResult.content
        IN  /\ \/ anResult.type = "attribute" /\ HasAriaChange(anGroup)
               \/ content.textLen >= minTextLength
               \/ content.newLen >= minTextLength
            /\ anResult.type = "text" => ~content.oldEqNew
            /\ anResult.type # "removal" => (content.textLen > 0 \/ content.newLen > 0)

\* A characterData change of a 30 character text produced an event of kind text
C20_Witness ==
    /\ anCalled
    /\ anResult # NULL
    /\ anResult.type = "text"
    /\ anGroup[1].target = ElemP
    /\ ~anResult.content.oldEqNew


\* What the records of a group hold
HasAddedNodes(group) ==
    \E i \in 1..Len(group) : group[i].type = "childList" /\ Len(group[i].addedNodes) > 0
HasRemovedNodes(group) ==
    \E i \in 1..Len(group) : group[i].type = "childList" /\ Len(group[i].removedNodes) > 0
HasAttributeRecords(group) == \E i \in 1..Len(group) : group[i].type = "attributes"
HasCharacterDataRecords(group) == \E i \in 1..Len(group) : group[i].type = "characterData"

\* ---- C21.  A change group gets one kind from the record types present:
\* added nodes only is addition, removed nodes only is removal, added and
\* removed nodes is replacement (one event), attribute records only is
\* attribute, character-data records only is text, none of these is unknown;
\* the event produced for the group carries that kind.
C21_OneKindPerGroup ==
    anCalled =>
        LET kind == _categorizeChangeType(anGroup)
            added == HasAddedNodes(anGroup)
            removed == HasRemovedNodes(anGroup)
            attrs == HasAttributeRecords(anGroup)
            chars == HasCharacterDataRecords(anGroup)
        IN  /\ kind \in {"addition", "removal", "replacement", "attribute", "text", "unknown"}
            /\ (added /\ ~removed /\ ~attrs /\ ~chars) => kind = "addition"
            /\ (removed /\ ~added /\ ~attrs /\ ~chars) => kind = "removal"
            /\ (added /\ removed) => kind = "replacement"
            /\ (attrs /\ ~added /\ ~removed /\ ~chars) => kind = "attribute"
            /\ (chars /\ ~added /\ ~removed /\ ~attrs) => kind = "text"
            /\ (kind = "unknown") <=> ~(added \/ removed \/ attrs \/ chars)
            /\ anResult # NULL => anResult.type = kind

\* A group with added and removed nodes produced one event of kind replacement
C21_Witness ==
    /\ anCalled
    /\ HasAddedNodes(anGroup)
    /\ HasRemovedNodes(anGroup)
    /\ anResult # NULL
    /\ anResult.type = "replacement"


C23_AllChangesHoldsEveryEvent ==
    (smIsArray /\ smResult # NULL /\ Len(smChange) >= 1) =>
        /\ smResult # Rejected
        /\ DOMAIN smResult = {"original", "summary", "priority", "isDirectSummary", "allChanges"}
        /\ Len(smResult.allChanges) = Len(smChange)
        /\ \A i \in 1..Len(smChange) :
              Cardinality({k \in 1..Len(smResult.allChanges) :
                              smResult.allChanges[k] = smChange[i]}) = 1

\* Three events, the first and the last on one target, came back in allChanges
\* in an order other than the order of the batch
C23_Witness ==
    /\ smIsArray
    /\ smResult \notin {NULL, Rejected}
    /\ Len(smChange) = 3
    /\ smChange[1].element = smChange[3].element
    /\ smChange[1].element # smChange[2].element
    /\ Len(smGroups) = 2
    /\ Len(smResult.allChanges) = 3
    /\ smResult.allChanges # smChange

\* The orders of the group summaries by descending priority
DescendingOrders(groups) ==
    {order \in [1..Len(groups) -> 1..Len(groups)] :
        /\ \A i, j \in 1..Len(groups) : i # j => order[i] # order[j]
        /\ \A i \in 1..(Len(groups) - 1) :
              groups[order[i]].priority >= groups[order[i + 1]].priority}

\* ---- C24.  The combined Summary of a batch has the maximum priority of the
\* group summaries; its text is the text of a group summary of that priority
\* followed by the texts of at most two further group summaries in descending
\* priority order, and by the marker with the number of group summaries minus
\* 3 exactly when there are more than three group summaries.
C24_CombinedFromHighestPriority ==
    (smIsArray /\ smResult \notin {NULL, Rejected}) =>
        LET n == Len(smGroups)
        IN  /\ \A k \in 1..n : smResult.priority >= smGroups[k].priority
            /\ \E order \in DescendingOrders(smGroups) :
                  LET text(i) == smGroups[order[i]].summary
                  IN  /\ smResult.priority = smGroups[order[1]].priority
                      /\ smResult.original = smGroups[order[1]].original
                      /\ smResult.summary =
                            CASE n = 1 -> text(1)
                              [] n = 2 -> text(1) \o ". " \o text(2)
                              [] n = 3 -> text(1) \o ". " \o text(2) \o ". " \o text(3)
                              [] OTHER -> text(1) \o ". " \o text(2) \o ". " \o text(3)
                                            \o " Plus " \o ToString(n - 3) \o " more changes."

\* Four groups whose first is not of highest priority were combined, with the
\* marker for one more change
C24_Witness ==
    /\ smIsArray
    /\ smResult \notin {NULL, Rejected}
    /\ Len(smGroups) = 4
    /\ smGroups[1].priority < smGroups[2].priority
    /\ smResult.priority = 10
    /\ ~localProcessingOnly
    /\ smResult.summary =
          "Error saving. Error message: Payment failed for your order. Saved Plus 1 more changes."


\* ---- C25 (as stated; refuted).  The text of every Summary the summarization
\* transform produces for a single event (not a direct summary), in the
\* simulated mode and with localProcessingOnly, has at most maxSummaryLength
\* characters.
C25_SummaryWithinMaxLength ==
    (smResult # NULL /\ ~smIsArray /\ smChange.type # "group" /\ ~smResult.isDirectSummary)
        => length(smResult.summary) <= maxSummaryLength


\* ---- C26.  The effective preferences of a site with overrides are the
\* global preferences with the site's keys laid over them and
\* contentTypePreferences merged per category: a category the site does not
\* name keeps its global entry, a top-level key the site does not set keeps
\* its global value; a site without overrides gets the global preferences.
C26_SiteOverridesMergedPerCategory ==
    lastFilter # NULL =>
        LET effective == lastFilter.preferences
            global == userPreferences.global
            domain == lastFilter.siteUrl
        IN  IF domain # "" /\ domain \in DOMAIN userPreferences.sites
            THEN LET site == userPreferences.sites[domain]
                     siteTypes == IF "contentTypePreferences" \in DOMAIN site
                                  THEN site.contentTypePreferences ELSE <<>>
                 IN  /\ DOMAIN effective = DOMAIN global \cup DOMAIN site
                     /\ \A key \in DOMAIN effective \ {"contentTypePreferences"} :
                           effective[key] = IF key \in DOMAIN site THEN site[key]
                                            ELSE global[key]
                     /\ DOMAIN effective.contentTypePreferences =
                           DOMAIN global.contentTypePreferences \cup DOMAIN siteTypes
                     /\ \A category \in DOMAIN effective.contentTypePreferences :
                           effective.contentTypePreferences[category] =
                               IF category \in DOMAIN siteTypes THEN siteTypes[category]
                               ELSE global.contentTypePreferences[category]
            ELSE effective = global

\* A site override that names only the advertisement category: the call on
\* that site used the site's advertisement entry and the global text entry
C26_Witness ==
    /\ lastFilter # NULL
    /\ lastFilter.siteUrl = href
    /\ href \in DOMAIN userPreferences.sites
    /\ DOMAIN userPreferences.sites[href].contentTypePreferences = {"advertisement"}
    /\ lastFilter.preferences.contentTypePreferences["advertisement"].enabled
    /\ ~userPreferences.global.contentTypePreferences["advertisement"].enabled
    /\ lastFilter.preferences.contentTypePreferences["text"] =
          userPreferences.global.contentTypePreferences["text"]
    /\ lastFilter.preferences.priorityThreshold = userPreferences.global.priorityThreshold


\* The indications the classification looks for
HasErrorKeyword(change) ==
    \E keyword \in {"error", "warning", "alert"} :
        includes(toLowerCase(change.summary), keyword)
HasChatIndication(change) ==
    \/ includes(change.summary, "message")
    \/ \E keyword \in {"chat", "message"} : includes(toLowerCase(change.context.section), keyword)
HasAdvertisementIndication(change) ==
    \E keyword \in {"ad", "sponsor"} :
        \/ includes(toLowerCase(change.summary), keyword)
        \/ includes(toLowerCase(change.context.section), keyword)

\* ---- C27.  The Content Category of a Summary is that of the first matching
\* rule in the order: error keyword in the summary text, isForm, role in
\* {navigation, link, button}, role in {img, video, audio}, chat indication,
\* advertisement indication, else text; a summary with an error keyword is
\* error even when its context is a form or a link.
C27_CategoryByFirstMatchingRule ==
    lastFilter # NULL =>
        LET change == lastFilter.change
            rules == <<HasErrorKeyword(change),
                       change.context.isForm,
                       change.context.role \in {"navigation", "link", "button"},
                       change.context.role \in {"img", "video", "audio"},
                       HasChatIndication(change),
                       HasAdvertisementIndication(change),
                       TRUE>>
            categories == <<"error", "form", "navigation", "media", "chat", "advertisement",
                            "text">>
            first == CHOOSE k \in 1..7 : rules[k] /\ \A j \in 1..(k - 1) : ~rules[j]
        IN  lastFilter.contentType = categories[first]

\* A summary with an error keyword in a form field that is a link was
\* classified as error
C27_Witness ==
    /\ lastFilter # NULL
    /\ lastFilter.change.summary = "WARNING: low disk"
    /\ lastFilter.change.context.isForm
    /\ lastFilter.change.context.role = "link"
    /\ lastFilter.contentType = "error"

\* ---- C28 (as stated; refuted).  Every Summary accepted by filterChanges in a
\* category other than error has a text of at least 3 characters.
C28_ShortTextRejected ==
    (/\ lastFilter # NULL
     /\ lastFilter.outcome = "accepted"
     /\ lastFilter.contentType # "error")
        => length(lastFilter.change.summary) >= 3


\* ---- C29.  When the observer notifies its listeners, every registered
\* listener is invoked exactly once with the events, in registration order,
\* even when an earlier listener throws, and no listener exception leaves the
\* observer's mutation callback.
C29_EveryListenerNotified ==
    \A i \in 1..Len(passes) :
        passes[i].events # <<>> =>
            /\ passes[i].notified = passes[i].listeners
            /\ \A k \in 1..Len(passes[i].notified) : passes[i].notified[k] = k
            /\ ~passes[i].propagated

\* Two listeners were registered, the first throws, and a pass with events
\* invoked both
C29_Witness ==
    \E i \in 1..Len(passes) :
        /\ passes[i].events # <<>>
        /\ passes[i].listeners = <<1, 2>>
        /\ 1 \in faultyListeners
        /\ passes[i].notified = <<1, 2>>


\* ---- C30.  An alert with priority 8 or higher is delivered on the combined
\* channel whatever the method of its category; an alert with priority below
\* 8 is delivered on the method configured for its category, or on the
\* default method when the category has none.
C30_HighPriorityCombined ==
    amCalled =>
        LET category == IF amAlert.contentType = "" THEN "text" ELSE amAlert.contentType
        IN  /\ amAlert.priority >= 8 =>
                  /\ amMethod = "combined"
                  /\ amChannels = {"screenreader", "visual", "audio"}
            /\ (amAlert.priority < 8 /\ category \in DOMAIN contentTypeAlertMethods) =>
                  amMethod = contentTypeAlertMethods[category]
            /\ (amAlert.priority < 8 /\ category \notin DOMAIN contentTypeAlertMethods) =>
                  amMethod = defaultAlertMethod

\* An advertisement of priority 8 went out on the combined channel although
\* advertisements are configured for the visual one
C30_Witness ==
    /\ amCalled
    /\ amAlert = [contentType |-> "advertisement", priority |-> 8]
    /\ contentTypeAlertMethods["advertisement"] = "visual"
    /\ amMethod = "combined"
    /\ amChannels = {"screenreader", "visual", "audio"}


C32_KeywordAdjustmentAnyCase ==
    (prCalled /\ HasErrorKeyword([summary |-> prSummary])) =>
        prResult >= Min(10, _determinePriority(prChange, "saved") + 2)


\* ---- C33.  Mutation records are processed in arrival order across bursts:
\* no record is processed before a record handed to _handleMutations earlier,
\* be that one processed in an earlier pass or still buffered for the
\* deferred flush.
C33_ProcessedInArrivalOrder ==
    /\ \A i \in 1..Len(passes) : \A j \in 1..Len(passes) :
          i < j => \A a \in 1..Len(passes[i].mutations) :
                      \A b \in 1..Len(passes[j].mutations) :
                          passes[i].mutations[a] < passes[j].mutations[b]
    /\ \A i \in 1..Len(passes) : \A a \in 1..Len(passes[i].mutations) :
          \A id \in PendingIds : passes[i].mutations[a] < id


\* ---- C34.  Alerts reach the alert dispatcher in the order in which the
\* observer notified the handler of their batches: showAlert for a batch is
\* never called after showAlert for a batch notified later.
C34_AlertsInNotificationOrder ==
    \A i \in 1..Len(hAlerts) : \A j \in 1..Len(hAlerts) :
        i < j => hAlerts[i] < hAlerts[j]


\* ---- C35.  cleanup() called while an alert is being rendered does not
\* break serialization: with later showAlert calls there are never two drain
\* loops active and never two alerts rendered at once.
C35_SerializedAcrossCleanup ==
    queueAlerts => (drainLoops < 2 /\ \A r1 \in rendering : \A r2 \in rendering : r1 = r2)


\* ---- C36.  The alert queue never gets stuck: whenever alertQueue is
\* non-empty a drain loop is active and isProcessing is true; and when every
\* render completes, every alert handed to showAlert is eventually rendered
\* unless it is evicted, and isProcessing eventually returns to false.
C36_QueueNeverStuck ==
    /\ [](alertQueue # <<>> => (alertIsProcessing /\ drainLoops >= 1))
    /\ \A a \in 1..MaxAlerts : (shown >= a) ~> (a \in finished \/ a \in evicted)
    /\ alertIsProcessing ~> ~alertIsProcessing

\* Alerts waited in the queue behind a render, every one has been rendered
\* and the loop has returned
C36_Witness ==
    /\ queueAlerts
    /\ shown >= 3
    /\ evicted = {}
    /\ finished = 1..shown
    /\ alertQueue = <<>>
    /\ ~alertIsProcessing
    /\ drainLoops = 0


\* The learning pass of a recordInteraction call finds the dismissed fraction
\* of a category above 0.7, or its clicked fraction above 0.3
DismissedMostly(learning, type) ==
    LET recent == Recent20(learning.history)
    IN  /\ Len(learning.history) >= 10
        /\ Occurrences(recent, type) >= 3
        /\ OccurrencesOf(recent, type, "dismissed") * 10 > 7 * Occurrences(recent, type)
ClickedOften(learning, type) ==
    LET recent == Recent20(learning.history)
    IN  /\ Len(learning.history) >= 10
        /\ Occurrences(recent, type) >= 3
        /\ OccurrencesOf(recent, type, "clicked") * 10 > 3 * Occurrences(recent, type)

\* ---- C37.  One recordInteraction call changes the global minPriority of a
\* category by at most 1 in absolute value, and the raise and the lowering
\* never both apply to a category: a category with the dismissed fraction
\* above 0.7 is not lowered, one with the clicked fraction above 0.3 is not
\* raised.
C37_OneStepPerCategory ==
    lastLearning # NULL =>
        \A type \in ContentTypes :
            LET before == lastLearning.before.global.contentTypePreferences[type].minPriority
                after == lastLearning.after.global.contentTypePreferences[type].minPriority
            IN  /\ after - before \in {-1, 0, 1}
                /\ ~(DismissedMostly(lastLearning, type) /\ ClickedOften(lastLearning, type))
                /\ DismissedMostly(lastLearning, type) => after >= before
                /\ ClickedOften(lastLearning, type) => after <= before

\* A pass that raised chat at 16 dismissals and 3 clicks among 20 entries
C37_Witness ==
    /\ lastLearning # NULL
    /\ DismissedMostly(lastLearning, "chat")
    /\ OccurrencesOf(Recent20(lastLearning.history), "chat", "clicked") >= 3
    /\ lastLearning.after.global.contentTypePreferences.chat.minPriority
         = lastLearning.before.global.contentTypePreferences.chat.minPriority + 1


\* ---- C38.  recordInteraction changes nothing of the preferences but the
\* minPriority of categories of the global preferences: the categories and
\* their enabled flags, the global priorityThreshold and the site overrides
\* are as before the call; and with enableLearning off the call leaves the
\* interaction history and the preferences as they were.
C38_LearningFrame ==
    lastLearning # NULL =>
        LET before == lastLearning.before
            after == lastLearning.after
            types == before.global.contentTypePreferences
        IN  /\ after.sites = before.sites
            /\ after.global.priorityThreshold = before.global.priorityThreshold
            /\ DOMAIN after.global = DOMAIN before.global
            /\ DOMAIN after.global.contentTypePreferences = DOMAIN types
            /\ \A type \in DOMAIN types :
                  after.global.contentTypePreferences[type].enabled = types[type].enabled
            /\ ~enableLearning =>
                  /\ after = before
                  /\ lastLearning.history = lastLearning.historyBefore

\* A call raised chat while a site override and a changed global threshold
\* were in place
C38_Witness ==
    /\ lastLearning # NULL
    /\ enableLearning
    /\ lastLearning.before.sites # <<>>
    /\ lastLearning.before.global.priorityThreshold # defaultPriorityThreshold
    /\ lastLearning.after.global.contentTypePreferences.chat.minPriority
         = lastLearning.before.global.contentTypePreferences.chat.minPriority + 1


\* ---- C39.  The Summary of an addition event whose context is not a form,
\* not interactive, not a live region and not a heading, and whose text
\* contains neither "ad" nor "sponsor", is never classified as advertisement
\* by the preference filter, whatever the length of the text.
C39_PlainAdditionNotAdvertisement ==
    (/\ smResult # NULL
     /\ ~smIsArray
     /\ smChange.type = "addition"
     /\ smChange.context # NULL
     /\ ~smChange.context.isForm
     /\ ~smChange.context.isInteractive
     /\ ~smChange.context.isLiveRegion
     /\ smChange.context.role # "heading"
     /\ ~includes(toLowerCase(EventText(smChange)), "ad")
     /\ ~includes(toLowerCase(EventText(smChange)), "sponsor"))
        => _determineContentType(FilterView(smResult)) # "advertisement"


\* ---- C40.  Start-up reaches the observing state whatever is in storage:
\* no exception ends the storage callback, and once the callback has run the
\* observer is connected and the pipeline handler registered.
C40_StartupReachesObserving ==
    /\ initialization # "aborted"
    /\ initialization = "done" => (observer /\ changeListeners # <<>>)

=============================================================================
